---- MODULE Spec2Model ----
(***************************************************************************)
(* Model of the repository content-selection and extraction engine of      *)
(* backend/app/services/ai_service.py: get_repository_structure,           *)
(* _extract_code_structure and extract_repository_content.                 *)
(*                                                                         *)
(* Text is kept as the list of its lines (what str.split('\n') returns and *)
(* '\n'.join consumes); a line is a literal beginning followed by `pad`    *)
(* filler characters "x", so that files of several hundred kilobytes stay  *)
(* small values.  File names and paths are strings handled character by    *)
(* character.                                                              *)
(***************************************************************************)
EXTENDS Integers, Sequences, FiniteSets, TLC

VARIABLES
    pc,             \* position of the running call
    target_dir,     \* parts of the root path handed to extract_repository_content
    root_exists,    \* whether that path exists on disk
    tree,           \* the files below the root: records [path, size, readable, stable]
    unsearchable,   \* the directories that can be listed but whose entries cannot be
                    \* examined (read permission without search permission)
    max_files,      \* argument max_files
    max_file_size,  \* argument max_file_size
    max_depth,      \* argument max_depth of get_repository_structure
    structure,      \* the summary returned by get_repository_structure
    code_files,     \* local code_files: sequence of files
    total_size,     \* local total_size
    content_parts,  \* local content_parts: sequence of parts
    result,         \* the returned string, as its sequence of parts
    content,        \* argument content of _extract_code_structure
    file_extension, \* argument file_extension of _extract_code_structure
    extracted,      \* value returned by _extract_code_structure
    _sessions,      \* mock_auth._sessions: token -> session
    now,            \* the clock read by datetime.utcnow(), in hours
    issued,         \* history: token -> what create_session stored for it
    deleted,        \* history: the tokens that delete_session removed
    call,           \* the last call on the session store and what it returned
    model_name,     \* os.getenv("MODEL_NAME")
    api_key,        \* os.getenv("ANTHROPIC_API_KEY")
    max_retries,    \* argument max_retries of send_prompt
    attempt,        \* loop variable attempt of send_prompt
    last_exception, \* local last_exception of send_prompt
    invoked,        \* history: the outcome of each llm.invoke of the call, in order
    reply,          \* how send_prompt ended: what it returned or raised
    cache,          \* Redis: repo id -> the value of the key repo_commit_hash:<id>
    remote,         \* the remotes: repo id -> the commit hash of HEAD
    last_check,     \* Redis: whether the key repo_check:last_run_timestamp is set
    repos_left,     \* the repositories that the loop of the pass has yet to check
    passes,         \* the number of passes begun
    event,          \* history: what the loop did with the repository it checked last
    pass_result,    \* what the last pass returned
    repo_table,     \* the committed rows of the table repo: records [id, repo_name, repo_url]
    tasks,          \* worker -> the execution of task_save_repo that it runs
    saves,          \* the number of executions of task_save_repo begun
    docu,           \* the call of generate_docu: its position, locals and result
    disk,           \* the temporary directories that exist
    docu_calls      \* the number of calls of generate_docu begun

vars == <<pc, target_dir, root_exists, tree, unsearchable, max_files, max_file_size,
          max_depth, structure, code_files, total_size, content_parts, result,
          content, file_extension, extracted, _sessions, now, issued, deleted, call,
          model_name, api_key, max_retries, attempt, last_exception, invoked, reply,
          cache, remote, last_check, repos_left, passes, event, pass_result,
          repo_table, tasks, saves, docu, disk, docu_calls>>

\* what a call is given: the arguments and the file system
inputVars == <<target_dir, root_exists, tree, unsearchable, max_files, max_file_size,
               max_depth>>

selVars == <<target_dir, root_exists, tree, unsearchable, max_files, max_file_size,
             max_depth, structure, code_files, total_size, content_parts, result>>

extVars == <<content, file_extension, extracted>>

sessVars == <<_sessions, now, issued, deleted, call>>

promptVars == <<model_name, api_key, max_retries, attempt, last_exception, invoked, reply>>

watchVars == <<cache, remote, last_check, repos_left, passes, event, pass_result>>

saveVars == <<repo_table, tasks, saves>>

docuVars == <<docu, disk, docu_calls>>

\* the state of the jobs that the workers run
jobVars == <<saveVars, docuVars>>

\* the state of the services around the core
svcVars == <<promptVars, watchVars, jobVars>>

\* what a call on the session store leaves alone
restVars == <<pc, selVars, extVars, svcVars>>

\* what a call of a service leaves alone
coreVars == <<selVars, extVars, sessVars, jobVars>>

\* what an execution of task_save_repo leaves alone
outsideSave == <<pc, selVars, extVars, sessVars, promptVars, watchVars, docuVars>>

\* what a call of generate_docu leaves alone
outsideDocu == <<pc, selVars, extVars, sessVars, promptVars, watchVars, saveVars>>

-----------------------------------------------------------------------------
(* Program constants *)

CODE_STRUCTURE_EXTRACTION_THRESHOLD == 3000
MIN_EXTRACTED_CONTENT == 100
TRUNCATE_LINES_HEAD == 25
TRUNCATE_LINES_TAIL == 25
max_total_size == 500000
DEFAULT_MAX_FILES == 50
DEFAULT_MAX_FILE_SIZE == 10000
STRUCTURE_MAX_DEPTH == 2
MAX_LISTED_DIRECTORIES == 20

\* faulty variant, used to test the properties: .git is missing from the list
SkipDirectoriesWithoutGit ==
    {"node_modules", "__pycache__", "venv", ".venv", "dist", "build", "target",
     "bin", "obj"}

SKIP_DIRECTORIES ==
    {".git", "node_modules", "__pycache__", "venv", ".venv", "dist", "build",
     "target", "bin", "obj"}

code_extensions ==
    {".py", ".js", ".jsx", ".ts", ".tsx", ".java", ".cpp", ".c", ".h",
     ".cs", ".go", ".rs", ".rb", ".php", ".swift", ".kt", ".scala",
     ".md", ".txt", ".json", ".yml", ".yaml", ".toml", ".xml"}

skip_files ==
    {"package-lock.json", "yarn.lock", "poetry.lock", "Pipfile.lock",
     ".gitignore", ".dockerignore", "LICENSE", "CHANGELOG.md"}

-----------------------------------------------------------------------------
(* Strings, character by character *)

AsciiOrder == "-./0123456789ABCDEFGHIJKLMNOPQRSTUVWXYZ_abcdefghijklmnopqrstuvwxyz"
UpperCase == "ABCDEFGHIJKLMNOPQRSTUVWXYZ"
LowerCase == "abcdefghijklmnopqrstuvwxyz"

CharAt(s, i) == SubSeq(s, i, i)

Chars == {CharAt(AsciiOrder, i) : i \in 1..Len(AsciiOrder)}

\* the position of each character in the order of the code points
OrdTable == [c \in Chars |-> CHOOSE i \in 1..Len(AsciiOrder) : CharAt(AsciiOrder, i) = c]

Ord(c) == OrdTable[c]

LowerTable ==
    [c \in Chars |->
        IF \E i \in 1..Len(UpperCase) : CharAt(UpperCase, i) = c
        THEN CharAt(LowerCase, CHOOSE i \in 1..Len(UpperCase) : CharAt(UpperCase, i) = c)
        ELSE c]

\* str.lower() on one character
LowerChar(c) == LowerTable[c]

RECURSIVE StrLower(_)
StrLower(s) ==
    IF Len(s) = 0 THEN ""
    ELSE LowerChar(CharAt(s, 1)) \o StrLower(SubSeq(s, 2, Len(s)))

\* sub in s
StrContains(s, sub) ==
    \E i \in 1..(Len(s) - Len(sub) + 1) : SubSeq(s, i, i + Len(sub) - 1) = sub

\* s < t, comparing code points as Python compares str
StrLess(s, t) ==
    \E i \in 1..(Len(t)) :
        /\ \A j \in 1..(i - 1) : j <= Len(s) /\ CharAt(s, j) = CharAt(t, j)
        /\ \/ Len(s) = i - 1
           \/ Len(s) >= i /\ Ord(CharAt(s, i)) < Ord(CharAt(t, i))

\* PurePath.suffix: the text from the last dot of the name, unless the dot is
\* the first or the last character
PathSuffix(name) ==
    LET dots == {i \in 1..Len(name) : CharAt(name, i) = "."}
    IN IF dots = {} THEN ""
       ELSE LET i == CHOOSE d \in dots : \A e \in dots : e <= d
            IN IF 1 < i /\ i < Len(name) THEN SubSeq(name, i, Len(name)) ELSE ""

RECURSIVE JoinParts(_)
JoinParts(parts) ==
    IF Len(parts) = 0 THEN ""
    ELSE IF Len(parts) = 1 THEN parts[1]
    ELSE parts[1] \o "/" \o JoinParts(Tail(parts))

\* str(path) of a path given by its parts; an absolute path starts with the part "/"
PathStr(parts) ==
    IF Len(parts) > 0 /\ parts[1] = "/" THEN "/" \o JoinParts(Tail(parts))
    ELSE JoinParts(parts)

PathName(parts) == IF Len(parts) = 0 THEN "" ELSE parts[Len(parts)]

-----------------------------------------------------------------------------
(* Text: a string is the sequence of the lines that split('\n') gives; the   *)
(* characters of a line are those of `text` followed by `pad` times "x".     *)

Line(t, n) == [text |-> t, pad |-> n]

EmptyText == <<Line("", 0)>>

LineLen(l) == Len(l.text) + l.pad

\* the sum of the lengths of the lines (by halves, to keep the recursion shallow)
RECURSIVE SumLineLen(_)
SumLineLen(lines) ==
    IF Len(lines) = 0 THEN 0
    ELSE IF Len(lines) = 1 THEN LineLen(lines[1])
    ELSE LET h == Len(lines) \div 2
         IN SumLineLen(SubSeq(lines, 1, h)) + SumLineLen(SubSeq(lines, h + 1, Len(lines)))

\* len(s) of the string whose lines are `lines`
TextLen(lines) == SumLineLen(lines) + (Len(lines) - 1)

\* '\n'.join(lines)
JoinLines(lines) == IF Len(lines) = 0 THEN EmptyText ELSE lines

\* s.split('\n')
SplitLines(text) == text

\* s + '\n' + l: the string s followed by a line break and the line l
TextAppendLine(s, l) == s \o <<l>>

IsSpace(c) == c \in {" ", "\t"}

\* line[:k]
LineCut(l, k) ==
    IF k >= LineLen(l) THEN l
    ELSE IF k <= Len(l.text) THEN Line(SubSeq(l.text, 1, k), 0)
    ELSE Line(l.text, k - Len(l.text))

\* s[:k]: the lines before the one in which the k-th character lies, and that
\* line cut
TextPrefix(lines, k) ==
    LET reached == {i \in 1..Len(lines) : TextLen(SubSeq(lines, 1, i)) >= k}
    IN IF reached = {} THEN lines
       ELSE LET i == CHOOSE r \in reached : \A q \in reached : r <= q
            IN SubSeq(lines, 1, i - 1)
               \o <<LineCut(lines[i], k - (TextLen(SubSeq(lines, 1, i - 1)) + 1))>>

\* line.strip(): the literal part loses its leading white space, and its
\* trailing white space when no filler follows it
LineStrip(l) ==
    LET t == l.text
        solid == {i \in 1..Len(t) : ~IsSpace(CharAt(t, i))}
    IN IF solid = {} THEN Line("", l.pad)
       ELSE LET first == CHOOSE i \in solid : \A j \in solid : i <= j
                last == IF l.pad > 0 THEN Len(t)
                        ELSE CHOOSE i \in solid : \A j \in solid : j <= i
            IN Line(SubSeq(t, first, last), l.pad)

\* line.startswith(prefix)
LineStartsWith(l, prefix) ==
    /\ LineLen(l) >= Len(prefix)
    /\ \A i \in 1..Len(prefix) :
          CharAt(prefix, i) = (IF i <= Len(l.text) THEN CharAt(l.text, i) ELSE "x")

StartsWithAny(l, prefixes) == \E p \in prefixes : LineStartsWith(l, p)

\* faulty variant, used to test the properties: the prefix is looked for in the line as it is, not in
\* its stripped form
KeepLinesUnstripped(lines, prefixes) ==
    SelectSeq(lines, LAMBDA l : StartsWithAny(l, prefixes))

\* the list comprehension / for-loop that keeps the matching lines, in order
\* (by halves, to keep the recursion shallow)
RECURSIVE KeepLines(_, _)
KeepLines(lines, prefixes) ==
    IF Len(lines) = 0 THEN <<>>
    ELSE IF Len(lines) = 1
         THEN (IF StartsWithAny(LineStrip(lines[1]), prefixes) THEN lines ELSE <<>>)
    ELSE LET h == Len(lines) \div 2
         IN KeepLines(SubSeq(lines, 1, h), prefixes)
            \o KeepLines(SubSeq(lines, h + 1, Len(lines)), prefixes)

PyPrefixes == {"import ", "from ", "class ", "def ", "@"}
JsPrefixes == {"import ", "export ", "class ", "function ", "const ", "let ", "var ",
               "interface ", "type "}
JavaPrefixes == {"import ", "package ", "class ", "interface ", "struct ", "enum ",
                 "func ", "pub fn", "impl "}

PyExtensions == {".py"}
JsExtensions == {".js", ".jsx", ".ts", ".tsx"}
JavaExtensions == {".java", ".cs", ".go", ".rs"}

TruncatedForBrevity == Line("... (truncated for brevity)", 0)
DetailsOmitted == Line("... (full implementation details omitted for brevity)", 0)
HeadTailMarker == <<Line("...", 0), Line("# Content truncated for brevity", 0), Line("...", 0)>>

\* faulty variant, used to test the properties: the threshold has lost a digit
IsSmallContentBelow300(text) == TextLen(text) < 300

\* the test of line 115: the file is small enough to be returned as it is
IsSmallContent(text) == TextLen(text) < CODE_STRUCTURE_EXTRACTION_THRESHOLD

\* faulty variant, used to test the properties: the bound has lost a digit
IsTooAggressiveBelow10(joined) == TextLen(joined) < 10

\* line 165: the joined lines are too short to stand for the file
IsTooAggressive(joined) == TextLen(joined) < MIN_EXTRACTED_CONTENT

\* faulty variant, used to test the properties: the tail is taken from the position TRUNCATE_LINES_TAIL
\* on (lines[25:] for lines[-25:])
ExtractedLinesFromTail(lines, ext) ==
    IF ext \in PyExtensions THEN KeepLines(lines, PyPrefixes)
    ELSE IF ext \in JsExtensions THEN KeepLines(lines, JsPrefixes)
    ELSE IF ext \in JavaExtensions THEN KeepLines(lines, JavaPrefixes)
    ELSE SubSeq(lines, 1, TRUNCATE_LINES_HEAD) \o HeadTailMarker
         \o SubSeq(lines, TRUNCATE_LINES_TAIL + 1, Len(lines))

\* lines 119-156: the lines kept for the extension
ExtractedLines(lines, ext) ==
    IF ext \in PyExtensions THEN KeepLines(lines, PyPrefixes)
    ELSE IF ext \in JsExtensions THEN KeepLines(lines, JsPrefixes)
    ELSE IF ext \in JavaExtensions THEN KeepLines(lines, JavaPrefixes)
    ELSE SubSeq(lines, 1, TRUNCATE_LINES_HEAD) \o HeadTailMarker
         \o SubSeq(lines, Len(lines) - TRUNCATE_LINES_TAIL + 1, Len(lines))

\* _extract_code_structure(content, file_extension)
_extract_code_structure(text, ext) ==
    LET lines == SplitLines(text)
        keyword == ext \in PyExtensions \cup JsExtensions \cup JavaExtensions
        fallback == TextAppendLine(TextPrefix(text, CODE_STRUCTURE_EXTRACTION_THRESHOLD),
                                   TruncatedForBrevity)
    IN IF IsSmallContent(text) THEN text
       ELSE IF ~keyword /\ Len(lines) <= TRUNCATE_LINES_HEAD + TRUNCATE_LINES_TAIL THEN text
       ELSE LET extracted_lines == ExtractedLines(lines, ext)
                joined == JoinLines(extracted_lines)
            IN IF Len(extracted_lines) = 0 THEN fallback
               ELSE IF IsTooAggressive(joined) THEN fallback
               ELSE TextAppendLine(joined, DetailsOmitted)

-----------------------------------------------------------------------------
(* The file system below the root *)

Range(seq) == {seq[i] : i \in 1..Len(seq)}

\* a file: its path below the root, its size, whether it can be opened, and
\* whether it stays in place (a file that does not is removed between the
\* is_file() and the stat() of the walk)
File(p, n, r, s) == [path |-> p, size |-> n, readable |-> r, stable |-> s]

\* item.parts of an entry found by repo_path.rglob("*"): the parts of the root
\* followed by the parts below it
ItemParts(root, path) == root \o path

\* item.relative_to(repo_path)
RelativeTo(parts, root) == SubSeq(parts, Len(root) + 1, Len(parts))

\* the directories that the files of a tree lie in, as paths below the root
DirectoriesOf(files) ==
    UNION {{SubSeq(f.path, 1, k) : k \in 1..(Len(f.path) - 1)} : f \in files}

\* the file content read with f.read(n): a text of f.size characters, cut to n
FileText(f) ==
    <<Line("import ", 50), Line("class ", 43), Line("    ", f.size - 112)>>

ReadFile(f, n) == TextPrefix(FileText(f), n)

-----------------------------------------------------------------------------
(* get_repository_structure *)

\* line 73: the entry lies in a .git directory
InGitDirectory(parts) == ".git" \in Range(parts)

\* faulty variant, used to test the properties: an entry at the depth max_depth is not recorded
IsRecordedBelowDepth(root, path, depth) ==
    /\ ~InGitDirectory(ItemParts(root, path))
    /\ Len(RelativeTo(ItemParts(root, path), root)) < depth

\* lines 73-79: the entry is recorded
IsRecorded(root, path, depth) ==
    /\ ~InGitDirectory(ItemParts(root, path))
    /\ Len(RelativeTo(ItemParts(root, path), root)) <= depth

\* list.sort() of a list of distinct strings
RECURSIVE SortStrings(_)
SortStrings(S) ==
    IF S = {} THEN <<>>
    ELSE LET least == CHOOSE x \in S : \A y \in S \ {x} : StrLess(x, y)
         IN <<least>> \o SortStrings(S \ {least})

\* get_repository_structure(target_dir, depth) on a walk that meets no error
get_repository_structure(root, exists, files, depth) ==
    IF ~exists THEN [root |-> root, files |-> <<>>, directories |-> <<>>]
    ELSE [root |-> root,
          files |-> SortStrings({PathStr(f.path) : f \in
                        {g \in files : IsRecorded(root, g.path, depth)}}),
          directories |-> SortStrings({PathStr(d) : d \in
                        {e \in DirectoriesOf(files) : IsRecorded(root, e, depth)}})]

-----------------------------------------------------------------------------
(* extract_repository_content: the walk *)

\* faulty variant, used to test the properties: only the directory that holds the entry is looked at
InSkippedParent(parts) ==
    Len(parts) > 1 /\ parts[Len(parts) - 1] \in SKIP_DIRECTORIES

\* line 221: any(skip in item.parts for skip in SKIP_DIRECTORIES)
InSkippedDirectory(parts) == \E skip \in SKIP_DIRECTORIES : skip \in Range(parts)

\* line 225: item.name in skip_files
IsSkippedFile(name) == name \in skip_files

\* line 228: item.suffix in code_extensions
HasCodeExtension(name) == PathSuffix(name) \in code_extensions

\* faulty variant, used to test the properties: the size is compared with the total budget instead of the cap
FitsTotalSize(size, limit) == size <= max_total_size

\* line 232: file_size <= max_file_size
FitsFileSize(size, limit) == size <= limit

\* lines 221-233: the file is appended to code_files
IsCandidate(root, f, limit) ==
    /\ ~InSkippedDirectory(ItemParts(root, f.path))
    /\ ~IsSkippedFile(PathName(f.path))
    /\ HasCodeExtension(PathName(f.path))
    /\ FitsFileSize(f.size, limit)

DirOf(f) == SubSeq(f.path, 1, Len(f.path) - 1)

IsPathPrefix(p, q) == Len(p) <= Len(q) /\ SubSeq(q, 1, Len(p)) = p

\* The orders in which rglob("*") can yield the files of S: the entries of a
\* directory come in the order the file system lists them, which is any order;
\* the entries of a directory come before those of its subdirectories, and the
\* entries below one directory are not interleaved with entries outside it.
WalkOrders(S) ==
    LET n == Cardinality(S)
    IN {o \in [1..n -> S] :
          /\ \A i, j \in 1..n : i # j => o[i] # o[j]
          /\ \A i, j \in 1..n :
                (DirOf(o[i]) # DirOf(o[j]) /\ IsPathPrefix(DirOf(o[i]), DirOf(o[j])))
                    => i < j
          /\ \A i, j, k \in 1..n :
                (i < j /\ j < k) =>
                    \A d \in 1..Len(DirOf(o[i])) :
                        (IsPathPrefix(SubSeq(DirOf(o[i]), 1, d), DirOf(o[k])))
                            => IsPathPrefix(SubSeq(DirOf(o[i]), 1, d), DirOf(o[j]))}

-----------------------------------------------------------------------------
(* The walks on a file system on which entries cannot be examined *)

\* the entries below the root: the files and the directories they lie in
EntryPaths(files) == {f.path : f \in files} \cup DirectoriesOf(files)

ParentOf(p) == SubSeq(p, 1, Len(p) - 1)

\* rglob lists a directory whose entries cannot be examined, but it cannot
\* list the directories below such a directory
IsYielded(p, bad) ==
    \A u \in bad : ~(IsPathPrefix(u, ParentOf(p)) /\ u # ParentOf(p))

\* the orders in which a directory can list the entries S
Listings(S) ==
    LET n == Cardinality(S)
    IN {o \in [1..n -> S] : \A i, j \in 1..n : i # j => o[i] # o[j]}

\* repo_path.rglob("*") from the directory d on: the entries of d in the order
\* of its listing, then, for each of them in that order, what lies below it
RECURSIVE RglobFrom(_, _)
RECURSIVE RglobEach(_, _)
RglobFrom(P, d) ==
    UNION {{listing \o below : below \in RglobEach(P, listing)} :
              listing \in Listings({p \in P : ParentOf(p) = d})}

RglobEach(P, dirs) ==
    IF Len(dirs) = 0 THEN {<<>>}
    ELSE {a \o b : a \in RglobFrom(P, Head(dirs)), b \in RglobEach(P, Tail(dirs))}

\* the sequences of entries that rglob can yield
RglobOrders(files, bad) ==
    RglobFrom({p \in EntryPaths(files) : IsYielded(p, bad)}, <<>>)

\* item.is_file() raises PermissionError: the entry lies in a directory whose
\* entries cannot be examined
CannotExamine(p, bad) == ParentOf(p) \in bad

PermissionError == "PermissionError"
FileNotFoundError == "FileNotFoundError"

\* the classes caught by 'except Exception'
IsException(exc) == exc \in {PermissionError, FileNotFoundError}

\* faulty variant, used to test the properties: the function has no handler
SurveyorCatchesNothing(exc) == FALSE

\* line 90: except Exception
SurveyorCatches(exc) == IsException(exc)

\* the entries of a walk before the first of the positions `failures`
WalkedBefore(order, failures) ==
    IF failures = {} THEN order
    ELSE SubSeq(order, 1, (CHOOSE i \in failures : \A j \in failures : i <= j) - 1)

\* lines 71-91 on the walk `order`: the lists as they are when the function
\* returns, and whether an exception leaves the function
SurveyOn(root, files, bad, depth, order) ==
    LET failures == {i \in 1..Len(order) :
                        IsRecorded(root, order[i], depth) /\ CannotExamine(order[i], bad)}
        walked == WalkedBefore(order, failures)
        recorded == SelectSeq(walked, LAMBDA p : IsRecorded(root, p, depth))
        fs == SelectSeq(recorded, LAMBDA p : p \in {f.path : f \in files})
        ds == SelectSeq(recorded, LAMBDA p : p \in DirectoriesOf(files))
    IN IF failures = {}
       THEN [structure |-> get_repository_structure(root, TRUE,
                               {f \in files : f.path \in Range(order)}, depth),
             raised |-> FALSE]
       ELSE [structure |-> [root |-> root,
                            files |-> [i \in 1..Len(fs) |-> PathStr(fs[i])],
                            directories |-> [i \in 1..Len(ds) |-> PathStr(ds[i])]],
             raised |-> ~SurveyorCatches(PermissionError)]

\* what get_repository_structure(target_dir, max_depth) can return
SurveyOutcomes(root, exists, files, bad, depth) ==
    IF ~exists
    THEN {[structure |-> get_repository_structure(root, FALSE, files, depth),
           raised |-> FALSE]}
    ELSE {SurveyOn(root, files, bad, depth, order) : order \in RglobOrders(files, bad)}

\* faulty variant, used to test the properties: the try of the walk has no handler
OuterHandlerCatchesNothing(exc) == FALSE

\* line 320: except Exception
OuterHandlerCatches(exc) == IsException(exc)

\* line 234: except BaseException
InnerHandlerCatches(exc) == TRUE

\* lines 219-235 on the walk `order`: the files appended to code_files, and
\* whether an exception left the loop; stat() fails on a file that was removed
WalkOn(root, files, bad, limit, order) ==
    LET lost == {f \in files : ~f.stable}
        failures == {i \in 1..Len(order) :
                        \/ /\ ~InSkippedDirectory(ItemParts(root, order[i]))
                           /\ ~IsSkippedFile(PathName(order[i]))
                           /\ CannotExamine(order[i], bad)
                        \/ /\ \E f \in lost : f.path = order[i]
                           /\ ~InnerHandlerCatches(FileNotFoundError)}
        walked == WalkedBefore(order, failures)
        kept == {f \in files : IsCandidate(root, f, limit) /\ f \notin lost}
        found == SelectSeq(walked, LAMBDA p : \E f \in kept : f.path = p)
    IN [code_files |-> [i \in 1..Len(found) |-> CHOOSE f \in kept : f.path = found[i]],
        failed |-> failures # {}]

-----------------------------------------------------------------------------
(* extract_repository_content: priority, sort and selection *)

Tier1Names == {"setup.py", "pyproject.toml", "package.json", "cargo.toml", "pom.xml",
               "build.gradle"}
Tier2Names == {"main.py", "index.js", "index.ts", "app.py", "__init__.py", "main.go",
               "main.rs"}

\* faulty variant, used to test the properties: the size is part of the key in every tier
file_priority_sized(root, f) ==
    LET name == StrLower(PathName(f.path))
        path_str == StrLower(PathStr(ItemParts(root, f.path)))
        suffix == PathSuffix(PathName(f.path))
    IN IF StrContains(name, "readme") THEN <<0, f.size, name>>
       ELSE IF name \in Tier1Names THEN <<1, f.size, name>>
       ELSE IF name \in Tier2Names THEN <<2, f.size, name>>
       ELSE IF StrContains(path_str, "src") \/ StrContains(path_str, "app")
            THEN <<3, f.size, name>>
       ELSE IF suffix \in {".md", ".txt"} THEN <<4, f.size, name>>
       ELSE IF suffix \in {".json", ".yml", ".yaml", ".toml", ".xml"} THEN <<5, f.size, name>>
       ELSE IF StrContains(path_str, "test") \/ StrContains(path_str, "spec")
            THEN <<6, f.size, name>>
       ELSE <<7, f.size, name>>

\* file_priority((file_path, file_size)), file_path being the absolute path
file_priority(root, f) ==
    LET name == StrLower(PathName(f.path))
        path_str == StrLower(PathStr(ItemParts(root, f.path)))
        suffix == PathSuffix(PathName(f.path))
    IN IF StrContains(name, "readme") THEN <<0, 0, name>>
       ELSE IF name \in Tier1Names THEN <<1, 0, name>>
       ELSE IF name \in Tier2Names THEN <<2, 0, name>>
       ELSE IF StrContains(path_str, "src") \/ StrContains(path_str, "app")
            THEN <<3, f.size, name>>
       ELSE IF suffix \in {".md", ".txt"} THEN <<4, f.size, name>>
       ELSE IF suffix \in {".json", ".yml", ".yaml", ".toml", ".xml"} THEN <<5, f.size, name>>
       ELSE IF StrContains(path_str, "test") \/ StrContains(path_str, "spec")
            THEN <<6, f.size, name>>
       ELSE <<7, f.size, name>>

\* a < b for two keys, as Python compares tuples
KeyLess(a, b) ==
    \/ a[1] < b[1]
    \/ a[1] = b[1] /\ a[2] < b[2]
    \/ a[1] = b[1] /\ a[2] = b[2] /\ StrLess(a[3], b[3])

\* list.sort(key=file_priority): the key of each file is computed once; the
\* sort is stable, so files with equal keys keep the order of the walk
RECURSIVE InsertByKey(_, _, _)
InsertByKey(keys, i, sorted) ==
    IF Len(sorted) = 0 THEN <<i>>
    ELSE IF KeyLess(keys[i], keys[Head(sorted)]) THEN <<i>> \o sorted
    ELSE <<Head(sorted)>> \o InsertByKey(keys, i, Tail(sorted))

RECURSIVE SortIndices(_, _)
SortIndices(keys, n) ==
    IF n = 0 THEN <<>> ELSE InsertByKey(keys, n, SortIndices(keys, n - 1))

\* faulty variant, used to test the properties: the list is left in the order of the walk
KeepWalkOrder(root, files) == files

SortByPriority(root, files) ==
    LET keys == [i \in 1..Len(files) |-> file_priority(root, files[i])]
        order == SortIndices(keys, Len(files))
    IN [i \in 1..Len(files) |-> files[order[i]]]

\* faulty variant, used to test the properties: the loop stops one file too late
CountLimitExceeded(selected, limit) == Len(selected) > limit

\* line 281: the file-count limit is reached
CountLimitReached(selected, limit) == Len(selected) >= limit

\* faulty variant, used to test the properties: the test looks at the running total alone, not at the file to add
ExceedsTotalSizeBefore(total, size) == total > max_total_size

\* line 283: the file would exceed the total size limit
ExceedsTotalSize(total, size) == total + size > max_total_size

\* faulty variant, used to test the properties: the loop ends at the first file that does not fit
RECURSIVE SelectLoopStopAtSkip(_, _, _, _)
SelectLoopStopAtSkip(files, selected, total, limit) ==
    IF Len(files) = 0 THEN [selected_files |-> selected, total_size |-> total]
    ELSE IF CountLimitReached(selected, limit) \/ ExceedsTotalSize(total, Head(files).size)
         THEN [selected_files |-> selected, total_size |-> total]
    ELSE SelectLoopStopAtSkip(Tail(files), Append(selected, Head(files)),
                              total + Head(files).size, limit)

\* faulty variant, used to test the properties: the size of a file is added to the total before the
\* test that leaves the file out
RECURSIVE SelectLoopCountingSkipped(_, _, _, _)
SelectLoopCountingSkipped(files, selected, total, limit) ==
    IF Len(files) = 0 THEN [selected_files |-> selected, total_size |-> total]
    ELSE IF CountLimitReached(selected, limit)
         THEN [selected_files |-> selected, total_size |-> total]
    ELSE IF ExceedsTotalSize(total, Head(files).size)
         THEN SelectLoopCountingSkipped(Tail(files), selected,
                                        total + Head(files).size, limit)
    ELSE SelectLoopCountingSkipped(Tail(files), Append(selected, Head(files)),
                                   total + Head(files).size, limit)

\* lines 278-287: the selection loop over the sorted files
RECURSIVE SelectLoop(_, _, _, _)
SelectLoop(files, selected, total, limit) ==
    IF Len(files) = 0 THEN [selected_files |-> selected, total_size |-> total]
    ELSE IF CountLimitReached(selected, limit)
         THEN [selected_files |-> selected, total_size |-> total]
    ELSE IF ExceedsTotalSize(total, Head(files).size)
         THEN SelectLoop(Tail(files), selected, total, limit)
    ELSE SelectLoop(Tail(files), Append(selected, Head(files)),
                    total + Head(files).size, limit)

-----------------------------------------------------------------------------
(* extract_repository_content: the returned string, part by part.  Each    *)
(* part is one string appended to content_parts: `kind` names its fixed    *)
(* wording, the other fields are the values formatted into it.             *)

Part(k, s, n, m, t) == [kind |-> k, str |-> s, num |-> n, num2 |-> m, text |-> t]

NotFoundPart == Part("Repository directory not found.", "", 0, 0, <<>>)
TitlePart == Part("# Repository Structure and Content", "", 0, 0, <<>>)
DirectoryStructurePart == Part("## Directory Structure", "", 0, 0, <<>>)
RootPart(root) == Part("Root:", PathStr(root), 0, 0, <<>>)
DirectoriesPart(n) == Part("Directories (n):", "", n, 0, <<>>)
DirectoryPart(d) == Part("  - dir", d, 0, 0, <<>>)
CodeFilesPart(n, kb) == Part("## Code Files", "", n, kb, <<>>)
FileSectionPart(rel) == Part("### File:", PathStr(rel), 0, 0, <<>>)
FenceOpenPart(lang) == Part("code fence open", lang, 0, 0, <<>>)
ContentPart(t) == Part("content", "", 0, 0, t)
TruncatedPart == Part("... (truncated)", "", 0, 0, <<>>)
FenceClosePart == Part("code fence close", "", 0, 0, <<>>)
ReadErrorPart == Part("Error reading file:", "", 0, 0, <<>>)
ExtractErrorPart == Part("Error extracting content:", "", 0, 0, <<>>)

Min(a, b) == IF a <= b THEN a ELSE b

\* faulty variant, used to test the properties: the header is written only when there are directories to list
HeaderPartsIfDirectories(root, summary) ==
    LET dirs == summary.directories
    IN IF Len(dirs) > 0
       THEN <<TitlePart, DirectoryStructurePart, RootPart(root), DirectoriesPart(Len(dirs))>>
            \o [i \in 1..Min(Len(dirs), MAX_LISTED_DIRECTORIES) |-> DirectoryPart(dirs[i])]
       ELSE <<TitlePart>>

\* lines 202-212: the title and the directory structure header
HeaderParts(root, summary) ==
    LET dirs == summary.directories
    IN <<TitlePart, DirectoryStructurePart, RootPart(root)>>
       \o (IF Len(dirs) > 0
           THEN <<DirectoriesPart(Len(dirs))>>
                \o [i \in 1..Min(Len(dirs), MAX_LISTED_DIRECTORIES) |-> DirectoryPart(dirs[i])]
           ELSE <<>>)

\* faulty variant, used to test the properties: the name of the file is not looked at
IsDocumentFileBySuffix(name) ==
    PathSuffix(name) \in {".md", ".txt", ".json", ".yml", ".yaml", ".toml", ".xml"}

\* lines 303-304: the file is a documentation or configuration file
IsDocumentFile(name) ==
    \/ PathSuffix(name) \in {".md", ".txt", ".json", ".yml", ".yaml", ".toml", ".xml"}
    \/ StrContains(StrLower(name), "readme")

\* lines 295-318: the section of one selected file
FileParts(f, limit) ==
    LET name == PathName(f.path)
        suffix == PathSuffix(name)
        lang == SubSeq(suffix, 2, Len(suffix))
        file_content == ReadFile(f, limit)
    IN <<FileSectionPart(f.path)>>
       \o (IF ~f.readable THEN <<ReadErrorPart>>
           ELSE IF IsDocumentFile(name)
           THEN <<FenceOpenPart(lang), ContentPart(file_content)>>
                \o (IF TextLen(file_content) >= limit THEN <<TruncatedPart>> ELSE <<>>)
                \o <<FenceClosePart>>
           ELSE <<FenceOpenPart(lang),
                  ContentPart(_extract_code_structure(file_content, suffix)),
                  FenceClosePart>>)

\* faulty variant, used to test the properties: the loop ends at the first file that cannot be read
RECURSIVE AllFilePartsUntilError(_, _)
AllFilePartsUntilError(files, limit) ==
    IF Len(files) = 0 THEN <<>>
    ELSE IF ~Head(files).readable THEN <<FileSectionPart(Head(files).path), ReadErrorPart>>
    ELSE FileParts(Head(files), limit) \o AllFilePartsUntilError(Tail(files), limit)

\* lines 294-318: the loop over the selected files
RECURSIVE AllFileParts(_, _)
AllFileParts(files, limit) ==
    IF Len(files) = 0 THEN <<>>
    ELSE FileParts(Head(files), limit) \o AllFileParts(Tail(files), limit)

-----------------------------------------------------------------------------
(* Inputs *)

\* the largest number of files in a tree
MaxTreeFiles == 2

RootPaths == {<<"/", "tmp", "repo">>, <<"/", "srv", "app", "repo">>,
              <<"/", "home", "build", "repo">>}

MaxFilesValues == {0, 1, 3, DEFAULT_MAX_FILES}

MaxFileSizeValues == {DEFAULT_MAX_FILE_SIZE, 300000}

Universe ==
    {File(<<"README.md">>, 200, TRUE, TRUE),
     File(<<"setup.py">>, 200, TRUE, TRUE),
     File(<<"main.py">>, 200000, TRUE, TRUE),
     File(<<"random.py">>, 200, TRUE, TRUE),
     File(<<"a", "README.md">>, 300000, TRUE, TRUE),
     File(<<"b", "README.md">>, 200, TRUE, TRUE),
     File(<<"node_modules", "lib.js">>, 200, TRUE, TRUE),
     File(<<".git", "hooks", "hook.py">>, 200, TRUE, TRUE),
     File(<<"__pycache__", "mod.py">>, 200, TRUE, TRUE),
     File(<<"package-lock.json">>, 200, TRUE, TRUE),
     File(<<"logo.png">>, 200, TRUE, TRUE),
     File(<<"src", "core", "util.py">>, 300000, TRUE, TRUE),
     File(<<"notes.txt">>, 200, TRUE, TRUE),
     File(<<"config.yml">>, 200, TRUE, TRUE),
     File(<<"tests", "test_util.py">>, 200, TRUE, TRUE),
     File(<<"app.py">>, 250000, FALSE, TRUE),
     File(<<"locked", "inner.py">>, 200, TRUE, TRUE),
     File(<<"scratch.py">>, 200, TRUE, FALSE),
     File(<<"ReadmeGen.py">>, 10000, TRUE, TRUE),
     File(<<"server.py">>, 5000, TRUE, TRUE)}

\* the directories of the universe whose entries cannot be examined
UnsearchableDirectories == {<<"locked">>}

\* the tree of the priority example: README.md, setup.py, main.py and random.py
ExampleTree ==
    {f \in Universe : f.path \in {<<"README.md">>, <<"setup.py">>, <<"main.py">>,
                                  <<"random.py">>}}

\* the file of the universe with the path p
FileAt(p) == CHOOSE f \in Universe : f.path = p

\* trees of particular scenarios: a file that cannot be read between two that
\* can; a .git directory, a node_modules directory and a README; root files
\* beside the directory whose entries cannot be examined; a file that is
\* removed during the walk; two large files and a small one of lower priority
ScenarioTrees ==
    {ExampleTree,
     {FileAt(<<"README.md">>), FileAt(<<"app.py">>), FileAt(<<"main.py">>)},
     {FileAt(<<".git", "hooks", "hook.py">>), FileAt(<<"node_modules", "lib.js">>),
      FileAt(<<"README.md">>)},
     {FileAt(<<"README.md">>), FileAt(<<"random.py">>), FileAt(<<"locked", "inner.py">>)},
     {FileAt(<<"README.md">>), FileAt(<<"scratch.py">>), FileAt(<<"random.py">>)},
     {FileAt(<<"a", "README.md">>), FileAt(<<"src", "core", "util.py">>),
      FileAt(<<"random.py">>)}}

Trees == {T \in SUBSET Universe : Cardinality(T) <= MaxTreeFiles} \cup ScenarioTrees

-----------------------------------------------------------------------------
(* extract_repository_content, step by step *)

\* faulty variant, used to test the properties: the existence test is missing
RootNeverMissing(exists) == FALSE

\* line 198: not repo_path.exists()
RootMissing(exists) == ~exists

\* the directories of a tree whose entries cannot be examined
UnsearchableIn(files) == DirectoriesOf(files) \cap UnsearchableDirectories

\* lines 59-63: the summary before the walk
EmptyStructure(root) == [root |-> root, files |-> <<>>, directories |-> <<>>]

ExtractIdle ==
    /\ content = EmptyText
    /\ file_extension = ""
    /\ extracted = EmptyText

\* the session store as the module is loaded (line 48)
SessionIdle ==
    /\ _sessions = <<>>
    /\ now = 0
    /\ issued = <<>>
    /\ deleted = {}
    /\ call = [op |-> "none", token |-> "", value |-> <<>>]

\* None, and a returned value v
None == <<>>
Some(v) == <<v>>

\* no exception: last_exception = None
NoException == [type |-> "", message |-> ""]

\* send_prompt is not called
PromptIdle ==
    /\ model_name = None
    /\ api_key = None
    /\ max_retries = 0
    /\ attempt = 0
    /\ last_exception = NoException
    /\ invoked = <<>>
    /\ reply = [kind |-> "none", content |-> "", exc |-> NoException]

\* no commit hash: None
NoHash == "None"

NoEvent ==
    [kind |-> "none", repo |-> 0, before |-> NoHash, read |-> NoHash, latest |-> NoHash,
     status |-> "", after |-> NoHash]

\* check_all_repositories_for_changes is not scheduled
WatchIdle ==
    /\ cache = <<>>
    /\ remote = <<>>
    /\ last_check = FALSE
    /\ repos_left = <<>>
    /\ passes = 0
    /\ event = NoEvent
    /\ pass_result = "none"

\* the workers of the pool
Workers == {1, 2}

\* a worker that runs no task
NoTask == [at |-> "idle", repo_url |-> "", ssh_auth_error |-> FALSE, result |-> "none"]

\* no task_save_repo is queued
SaveIdle ==
    /\ repo_table = <<>>
    /\ tasks = [w \in Workers |-> NoTask]
    /\ saves = 0

\* no call of generate_docu
NoCall == [at |-> "idle", repo_id |-> 0, temp_dir |-> None, path |-> "none",
           result |-> "none", cleanup |-> "none"]

DocuIdle ==
    /\ docu = NoCall
    /\ disk = {}
    /\ docu_calls = 0

JobsIdle == SaveIdle /\ DocuIdle

ServiceIdle == PromptIdle /\ WatchIdle /\ JobsIdle

Init ==
    /\ pc = "start"
    /\ target_dir \in RootPaths
    /\ root_exists \in BOOLEAN
    /\ tree \in (IF root_exists THEN Trees ELSE {{}})
    /\ unsearchable = UnsearchableIn(tree)
    /\ max_files \in MaxFilesValues
    /\ max_file_size \in MaxFileSizeValues
    /\ max_depth = STRUCTURE_MAX_DEPTH
    /\ structure = EmptyStructure(target_dir)
    /\ code_files = <<>>
    /\ total_size = 0
    /\ content_parts = <<>>
    /\ result = <<>>
    /\ ExtractIdle
    /\ SessionIdle
    /\ ServiceIdle

\* lines 197-199: the root does not exist
ReturnNotFound ==
    /\ pc = "start"
    /\ RootMissing(root_exists)
    /\ result' = <<NotFoundPart>>
    /\ pc' = "done"
    /\ UNCHANGED <<structure, code_files, total_size, content_parts>>
    /\ UNCHANGED inputVars
    /\ UNCHANGED extVars
    /\ UNCHANGED sessVars
    /\ UNCHANGED svcVars

\* lines 201-216: the survey and the header; line 205 is outside every try, so
\* an exception that leaves get_repository_structure leaves the call
WriteHeader ==
    /\ pc = "start"
    /\ ~RootMissing(root_exists)
    /\ \E out \in SurveyOutcomes(target_dir, root_exists, tree, unsearchable, max_depth) :
          /\ structure' = out.structure
          /\ IF out.raised
             THEN /\ content_parts' = <<TitlePart>>
                  /\ pc' = "raised"
             ELSE /\ content_parts' = HeaderParts(target_dir, out.structure)
                  /\ pc' = "walk"
    /\ code_files' = <<>>
    /\ UNCHANGED <<total_size, result>>
    /\ UNCHANGED inputVars
    /\ UNCHANGED extVars
    /\ UNCHANGED sessVars
    /\ UNCHANGED svcVars

\* lines 219-235 and 320-322: the walk collects the candidates in the order
\* it meets them; a stat() that fails is passed over by the inner handler; an
\* is_file() that raises ends the try block, and the outer handler appends
\* the error line
Walk ==
    /\ pc = "walk"
    /\ \E order \in RglobOrders(tree, unsearchable) :
          LET walk == WalkOn(target_dir, tree, unsearchable, max_file_size, order)
          IN /\ code_files' = walk.code_files
             /\ IF ~walk.failed
                THEN /\ pc' = "sort"
                     /\ UNCHANGED content_parts
                ELSE IF OuterHandlerCatches(PermissionError)
                THEN /\ pc' = "return"
                     /\ content_parts' = Append(content_parts, ExtractErrorPart)
                ELSE /\ pc' = "raised"
                     /\ UNCHANGED content_parts
    /\ UNCHANGED <<structure, total_size, result>>
    /\ UNCHANGED inputVars
    /\ UNCHANGED extVars
    /\ UNCHANGED sessVars
    /\ UNCHANGED svcVars

\* lines 238-274: code_files.sort(key=file_priority)
SortFiles ==
    /\ pc = "sort"
    /\ code_files' = SortByPriority(target_dir, code_files)
    /\ pc' = "select"
    /\ UNCHANGED <<structure, total_size, content_parts, result>>
    /\ UNCHANGED inputVars
    /\ UNCHANGED extVars
    /\ UNCHANGED sessVars
    /\ UNCHANGED svcVars

\* lines 278-291: the selection and the code files header
SelectFiles ==
    /\ pc = "select"
    /\ LET sel == SelectLoop(code_files, <<>>, 0, max_files)
       IN /\ code_files' = sel.selected_files
          /\ total_size' = sel.total_size
          /\ content_parts' = Append(content_parts,
                 CodeFilesPart(Len(sel.selected_files), sel.total_size \div 1024))
    /\ pc' = "read"
    /\ UNCHANGED <<structure, result>>
    /\ UNCHANGED inputVars
    /\ UNCHANGED extVars
    /\ UNCHANGED sessVars
    /\ UNCHANGED svcVars

\* lines 294-318: one section per selected file
ReadFiles ==
    /\ pc = "read"
    /\ content_parts' = content_parts \o AllFileParts(code_files, max_file_size)
    /\ pc' = "return"
    /\ UNCHANGED <<structure, code_files, total_size, result>>
    /\ UNCHANGED inputVars
    /\ UNCHANGED extVars
    /\ UNCHANGED sessVars
    /\ UNCHANGED svcVars

\* line 324: "".join(content_parts)
ReturnContent ==
    /\ pc = "return"
    /\ result' = content_parts
    /\ pc' = "done"
    /\ UNCHANGED <<structure, code_files, total_size, content_parts>>
    /\ UNCHANGED inputVars
    /\ UNCHANGED extVars
    /\ UNCHANGED sessVars
    /\ UNCHANGED svcVars

Next ==
    \/ ReturnNotFound
    \/ WriteHeader
    \/ Walk
    \/ SortFiles
    \/ SelectFiles
    \/ ReadFiles
    \/ ReturnContent

Spec == Init /\ [][Next]_vars

-----------------------------------------------------------------------------
(* get_repository_structure, called on its own *)

MaxDepthValues == {1, 2, 3}

SurveyInit ==
    /\ pc = "survey"
    /\ target_dir \in RootPaths
    /\ root_exists \in BOOLEAN
    /\ tree \in (IF root_exists THEN Trees ELSE {{}})
    /\ unsearchable = UnsearchableIn(tree)
    /\ max_depth \in MaxDepthValues
    /\ structure = EmptyStructure(target_dir)
    /\ max_files = 0
    /\ max_file_size = 0
    /\ code_files = <<>>
    /\ total_size = 0
    /\ content_parts = <<>>
    /\ result = <<>>
    /\ ExtractIdle
    /\ SessionIdle
    /\ ServiceIdle

\* lines 65-93: one call of get_repository_structure
SurveyCall ==
    /\ pc = "survey"
    /\ \E out \in SurveyOutcomes(target_dir, root_exists, tree, unsearchable, max_depth) :
          /\ structure' = out.structure
          /\ pc' = IF out.raised THEN "raised" ELSE "surveyed"
    /\ UNCHANGED <<code_files, total_size, content_parts, result>>
    /\ UNCHANGED inputVars
    /\ UNCHANGED extVars
    /\ UNCHANGED sessVars
    /\ UNCHANGED svcVars

NextSurvey == SurveyCall

SpecSurvey == SurveyInit /\ [][NextSurvey]_vars

-----------------------------------------------------------------------------
(* _extract_code_structure, called on its own *)

\* n copies of the line l
Repeat(l, n) == [i \in 1..n |-> l]

PyHead == <<Line("import os", 0), Line("import sys", 0),
            Line("from app.services.ai_service import extract_repository_content", 0),
            Line("class Extractor:", 0), Line("    def run(self):", 0),
            Line("def main():", 0)>>
JsHead == <<Line("import React from 'react';", 0),
            Line("export function render(props) {", 0),
            Line("const state = createStore();", 0),
            Line("interface Props { name: string }", 0)>>
JavaHead == <<Line("package com.example.app;", 0), Line("import java.util.List;", 0),
              Line("class Main {", 0), Line("interface Service {", 0),
              Line("func main() {", 0), Line("pub fn run() {", 0),
              Line("impl Service for Main {", 0)>>

FillerLine == Line("    x = 1", 0)

\* a text of exactly `len` characters: the head lines, n filler lines and a last
\* line of filler characters
MakeText(head, n, len) ==
    LET body == head \o Repeat(FillerLine, n)
    IN body \o <<Line("", len - SumLineLen(body) - Len(body))>>

Heads == {<<>>, PyHead, JsHead, JavaHead}
FillerCounts == {0, 30, 60, 400}
TextLengths == {700, CODE_STRUCTURE_EXTRACTION_THRESHOLD - 1,
                CODE_STRUCTURE_EXTRACTION_THRESHOLD, 5000}

\* the head and filler lines leave room for the last line
FitsLength(head, n, len) ==
    SumLineLen(head) + n * LineLen(FillerLine) + Len(head) + n <= len

\* a content of 60 lines that are all import lines, 3479 characters
AllImports == Repeat(Line("import ", 50), 60)

\* contents of 50 and of 51 lines, of 70 characters each but for the one-character
\* line in the middle of the second, 3549 and 3551 characters
FiftyLines == Repeat(Line("", 70), 50)
FiftyOneLines == Repeat(Line("", 70), 25) \o <<Line("x", 0)>> \o Repeat(Line("", 70), 25)

\* contents of 5000 characters whose two matching lines, joined, have 99 and
\* 100 characters
Joined99 == MakeText(<<Line("import ", 42), Line("class ", 43)>>, 30, 5000)
Joined100 == MakeText(<<Line("import ", 43), Line("class ", 43)>>, 30, 5000)

\* a content of 51 lines of which only the one in the middle is not empty,
\* 3050 characters
HollowContent == Repeat(Line("", 0), 25) \o <<Line("", 3000)>> \o Repeat(Line("", 0), 25)

EdgeContents == {AllImports, FiftyLines, FiftyOneLines, Joined99, Joined100, HollowContent}

Contents ==
    {EmptyText} \cup EdgeContents \cup
    {MakeText(c[1], c[2], c[3]) :
        c \in {d \in Heads \X FillerCounts \X TextLengths : FitsLength(d[1], d[2], d[3])}}

Extensions == {".py", ".js", ".tsx", ".java", ".rs", ".cpp", ".rb", ".md", ""}

SelectorIdle ==
    /\ target_dir = <<>>
    /\ root_exists = FALSE
    /\ tree = {}
    /\ unsearchable = {}
    /\ max_files = 0
    /\ max_file_size = 0
    /\ max_depth = 0
    /\ structure = EmptyStructure(<<>>)
    /\ code_files = <<>>
    /\ total_size = 0
    /\ content_parts = <<>>
    /\ result = <<>>

InitExtract ==
    /\ pc = "extract"
    /\ content \in Contents
    /\ file_extension \in Extensions
    /\ extracted = EmptyText
    /\ SelectorIdle
    /\ SessionIdle
    /\ ServiceIdle

\* lines 111-168: one call of _extract_code_structure
ExtractCall ==
    /\ pc = "extract"
    /\ extracted' = _extract_code_structure(content, file_extension)
    /\ pc' = "extracted"
    /\ UNCHANGED <<content, file_extension>>
    /\ UNCHANGED selVars
    /\ UNCHANGED sessVars
    /\ UNCHANGED svcVars

NextExtract == ExtractCall

SpecExtract == InitExtract /\ [][NextExtract]_vars

-----------------------------------------------------------------------------
(* The two entry points of the core together: a call of                     *)
(* extract_repository_content or a call of _extract_code_structure          *)

InitCore == Init \/ InitExtract

NextCore == Next \/ NextExtract

SpecCore == InitCore /\ [][NextCore]_vars

-----------------------------------------------------------------------------
(* auth/mock_auth.py: the in-memory session store *)

SESSION_HOURS == 8

TOKEN_PREFIX == "mock-session-"

\* the tokens that uuid4 can give: every call of create_session gets one that
\* was never given before
FreshTokens == {"mock-session-1f0c", "mock-session-9a7e"}

\* the tokens that callers present: those, one that has the prefix but was
\* never created, and one without the prefix
PresentedTokens == FreshTokens \cup {"mock-session-0000", "Bearer abc"}

\* the user data handed to create_session: entries of MOCK_USERS
UserData ==
    {[email |-> "admin@caffeinecode.com", role |-> "admin"],
     [email |-> "viewer@caffeinecode.com", role |-> "viewer"]}

\* the clock stops at this hour
MaxClock == 12

\* the hours that pass between two calls
ClockSteps == {4}

\* token.startswith(prefix)
StrStartsWith(str, prefix) ==
    Len(str) >= Len(prefix) /\ SubSeq(str, 1, Len(prefix)) = prefix

\* the store without the tokens of S
Without(store, S) == [t \in (DOMAIN store) \ S |-> store[t]]

\* the store with token bound to session
With(store, token, session) ==
    [t \in (DOMAIN store) \cup {token} |-> IF t = token THEN session ELSE store[t]]

\* faulty variant, used to test the properties: a session is expired from its expiry time on
IsExpiredAtExpiry(time, session) == time >= session.expires_at

\* line 112: datetime.utcnow() > session["expires_at"]
IsExpired(time, session) == time > session.expires_at

\* lines 87-96; both readings of the clock give the same hour
create_session ==
    \E user_data \in UserData :
    \E token \in FreshTokens \ DOMAIN issued :
        LET session == [user |-> user_data, expires_at |-> now + SESSION_HOURS,
                        created_at |-> now]
        IN /\ _sessions' = With(_sessions, token, session)
           /\ issued' = With(issued, token, session)
           /\ call' = [op |-> "create_session", token |-> token, value |-> Some(token)]
           /\ UNCHANGED <<now, deleted>>
           /\ UNCHANGED restVars

\* lines 105-117
get_session ==
    \E token \in PresentedTokens :
        /\ IF ~StrStartsWith(token, TOKEN_PREFIX)
           THEN /\ call' = [op |-> "get_session", token |-> token, value |-> None]
                /\ UNCHANGED _sessions
           ELSE IF token \notin DOMAIN _sessions
           THEN /\ call' = [op |-> "get_session", token |-> token, value |-> None]
                /\ UNCHANGED _sessions
           ELSE IF IsExpired(now, _sessions[token])
           THEN /\ _sessions' = Without(_sessions, {token})
                /\ call' = [op |-> "get_session", token |-> token, value |-> None]
           ELSE /\ call' = [op |-> "get_session", token |-> token,
                            value |-> Some(_sessions[token].user)]
                /\ UNCHANGED _sessions
        /\ UNCHANGED <<now, issued, deleted>>
        /\ UNCHANGED restVars

\* lines 126-129
delete_session ==
    \E token \in PresentedTokens :
        /\ IF token \in DOMAIN _sessions
           THEN /\ _sessions' = Without(_sessions, {token})
                /\ deleted' = deleted \cup {token}
                /\ call' = [op |-> "delete_session", token |-> token, value |-> Some(TRUE)]
                /\ UNCHANGED <<now, issued>>
           ELSE /\ call' = [op |-> "delete_session", token |-> token, value |-> Some(FALSE)]
                /\ UNCHANGED <<_sessions, now, issued, deleted>>
        /\ UNCHANGED restVars

\* lines 155-159
cleanup_expired_sessions ==
    LET expired == {t \in DOMAIN _sessions : now > _sessions[t].expires_at}
    IN /\ _sessions' = Without(_sessions, expired)
       /\ call' = [op |-> "cleanup_expired_sessions", token |-> "",
                   value |-> Some(Cardinality(expired))]
       /\ UNCHANGED <<now, issued, deleted>>
       /\ UNCHANGED restVars

\* time passes between two calls
ClockAdvance ==
    \E d \in ClockSteps :
        /\ now + d <= MaxClock
        /\ now' = now + d
        /\ call' = [op |-> "none", token |-> "", value |-> None]
        /\ UNCHANGED <<_sessions, issued, deleted>>
        /\ UNCHANGED restVars

InitSessions ==
    /\ pc = "serving"
    /\ SessionIdle
    /\ ServiceIdle
    /\ SelectorIdle
    /\ ExtractIdle

NextSessions ==
    \/ create_session
    \/ get_session
    \/ delete_session
    \/ cleanup_expired_sessions
    \/ ClockAdvance

SpecSessions == InitSessions /\ [][NextSessions]_vars

-----------------------------------------------------------------------------
(* services/ai_service.py: send_prompt and get_model *)

\* str.lower(), characters outside the letters left as they are (by halves,
\* to keep the recursion shallow)
RECURSIVE StrLowerAny(_)
StrLowerAny(s) ==
    IF Len(s) = 0 THEN ""
    ELSE IF Len(s) = 1 THEN (IF s \in Chars THEN LowerChar(s) ELSE s)
    ELSE LET h == Len(s) \div 2
         IN StrLowerAny(SubSeq(s, 1, h)) \o StrLowerAny(SubSeq(s, h + 1, Len(s)))

IsWhitespace(c) == c \in {" ", "\t", "\n", "\r"}

\* str.strip()
StrStrip(s) ==
    LET solid == {i \in 1..Len(s) : ~IsWhitespace(CharAt(s, i))}
    IN IF solid = {} THEN ""
       ELSE SubSeq(s, CHOOSE i \in solid : \A j \in solid : i <= j,
                      CHOOSE i \in solid : \A j \in solid : j <= i)

\* what llm.invoke does: it returns a response with a content, or raises an
\* exception of a class with a message
Response(c) == [kind |-> "response", content |-> c, type |-> "", message |-> ""]
Raises(t, m) == [kind |-> "exception", content |-> "", type |-> t, message |-> m]

\* Exception(message)
Exception(m) == [type |-> "Exception", message |-> m]

GatewayResponseMessage ==
    "LLM gateway returned an error response (possibly timeout). Please try again or reduce the repository size."
InternalErrorMessage ==
    "LLM gateway internal error. The prompt may be too large or the service is unavailable. Try reducing repository size or try again later."
TimedOutMessage ==
    "LLM request timed out. The documentation generation is taking too long. Try reducing the repository size."
GatewayTimeoutMessage ==
    "LLM gateway timeout (504). Try reducing the repository size or try again later."
GatewayErrorMessage ==
    "LLM gateway error. The service may be unavailable. Try again later."
AllRetriesFailedMessage == "LLM request failed after all retries"
ModelNotSetMessage == "MODEL_NAME ist nicht gesetzt. Bitte in der .env-Datei eintragen."
KeyNotSetMessage == "ANTHROPIC_API_KEY ist nicht gesetzt. Bitte in der .env-Datei eintragen."
UnknownModelMessage == "Unbekanntes Modell"

\* faulty variant, used to test the properties: the words of the gateway page are not looked for
LooksLikeHtmlErrorByTag(c) ==
    Len(c) > 0 /\ StrStartsWith(StrStrip(c), "<")

\* line 558: the response looks like an HTML error page
LooksLikeHtmlError(c) ==
    Len(c) > 0 /\ (StrStartsWith(StrStrip(c), "<") \/ StrContains(c, "Gateway Time-out"))

\* lines 582-590: the error is one that a further attempt may cure
is_retryable(e) ==
    \/ StrContains(e.type, "Timeout")
    \/ StrContains(StrLowerAny(e.message), "timeout")
    \/ StrContains(e.message, "504")
    \/ StrContains(e.message, "502")
    \/ StrContains(e.message, "503")
    \/ StrContains(e.message, "Gateway")
    \/ StrContains(e.type, "InternalServerError")

\* lines 594-606: the exception that leaves the handler
Reraised(e) ==
    IF StrContains(e.type, "InternalServerError") THEN Exception(InternalErrorMessage)
    ELSE IF StrContains(e.type, "Timeout") \/ StrContains(StrLowerAny(e.message), "timeout")
    THEN Exception(TimedOutMessage)
    ELSE IF StrContains(e.message, "<") /\ StrContains(e.message, ">")
    THEN (IF StrContains(e.message, "504") \/ StrContains(e.message, "Gateway Time-out")
          THEN Exception(GatewayTimeoutMessage)
          ELSE Exception(GatewayErrorMessage))
    ELSE e

\* lines 561 and 593: this is the last attempt
IsLastAttempt(a, retries) == a >= retries - 1

\* lines 618-634: get_model(model_name), the exception it raises or none
get_model(name, key) ==
    IF name = None THEN [type |-> "ValueError", message |-> ModelNotSetMessage]
    ELSE IF StrStartsWith(name[1], "eu.anthropic")
    THEN (IF key = None \/ key = Some("")
          THEN [type |-> "ValueError", message |-> KeyNotSetMessage]
          ELSE NoException)
    ELSE [type |-> "ValueError", message |-> UnknownModelMessage]

Returns(c) == [kind |-> "return", content |-> c, exc |-> NoException]
RaisesOut(e) == [kind |-> "raise", content |-> "", exc |-> e]

MaxRetriesValues == {0, 1, 2, 3}

ModelNames == {None, Some("eu.anthropic.claude-sonnet"), Some("gpt-4o")}
ApiKeys == {None, Some(""), Some("sk-key")}

\* what llm.invoke can do
InvokeOutcomes ==
    {Response("# Documentation"),
     Response(""),
     Response("Use a < b to compare"),
     Response("<html><body>502 Bad Gateway</body></html>"),
     Response("  <!DOCTYPE html>"),
     Response("Error: 504 Gateway Time-out"),
     Raises("APITimeoutError", "Request timed out."),
     Raises("APIConnectionError", "Connection timeout"),
     Raises("APIStatusError", "<html><h1>504 Gateway Time-out</h1></html>"),
     Raises("APIStatusError", "Error code: 502"),
     Raises("APIStatusError", "<html>503 Service Unavailable</html>"),
     Raises("APIError", "Bad Gateway"),
     Raises("InternalServerError", "Internal Server Error"),
     Raises("AuthenticationError", "Invalid API key"),
     Raises("BadRequestError", "<html><body>400 Bad Request</body></html>"),
     Raises("RateLimitError", "Error code: 429")}

InitPrompt ==
    /\ pc = "send_prompt"
    /\ model_name \in ModelNames
    /\ api_key \in ApiKeys
    /\ max_retries \in MaxRetriesValues
    /\ attempt = 0
    /\ last_exception = NoException
    /\ invoked = <<>>
    /\ reply = [kind |-> "none", content |-> "", exc |-> NoException]
    /\ SelectorIdle
    /\ ExtractIdle
    /\ SessionIdle
    /\ WatchIdle
    /\ JobsIdle

\* lines 542-545: the model is looked up; an exception of get_model leaves
\* send_prompt
GetModel ==
    /\ pc = "send_prompt"
    /\ LET e == get_model(model_name, api_key)
       IN IF e # NoException
          THEN /\ reply' = RaisesOut(e)
               /\ pc' = "raised"
          ELSE /\ pc' = "attempt"
               /\ UNCHANGED reply
    /\ UNCHANGED <<model_name, api_key, max_retries, attempt, last_exception, invoked>>
    /\ UNCHANGED coreVars
    /\ UNCHANGED watchVars

\* lines 597-609, the handler 'except Exception as e' of the attempt a
Handled(a, e) ==
    /\ last_exception' = e
    /\ IF IsLastAttempt(a, max_retries) \/ ~is_retryable(e)
       THEN /\ reply' = RaisesOut(Reraised(e))
            /\ pc' = "raised"
            /\ UNCHANGED attempt
       ELSE /\ attempt' = a + 1
            /\ UNCHANGED <<reply, pc>>

\* lines 546-609: one pass of the loop, with one llm.invoke
Attempt ==
    /\ pc = "attempt"
    /\ attempt < max_retries
    /\ \E out \in InvokeOutcomes :
          /\ invoked' = Append(invoked, out)
          /\ IF out.kind = "exception"
             THEN Handled(attempt, [type |-> out.type, message |-> out.message])
             ELSE IF LooksLikeHtmlError(out.content)
             THEN IF attempt < max_retries - 1
                  THEN /\ last_exception' = Exception(GatewayResponseMessage)
                       /\ attempt' = attempt + 1
                       /\ UNCHANGED <<reply, pc>>
                  ELSE Handled(attempt, Exception(GatewayResponseMessage))
             ELSE /\ reply' = Returns(out.content)
                  /\ pc' = "returned"
                  /\ UNCHANGED <<attempt, last_exception>>
    /\ UNCHANGED <<model_name, api_key, max_retries>>
    /\ UNCHANGED coreVars
    /\ UNCHANGED watchVars

\* lines 611-614: the loop has ended without a return
Exhausted ==
    /\ pc = "attempt"
    /\ attempt >= max_retries
    /\ reply' = RaisesOut(IF last_exception # NoException THEN last_exception
                          ELSE Exception(AllRetriesFailedMessage))
    /\ pc' = "raised"
    /\ UNCHANGED <<model_name, api_key, max_retries, attempt, last_exception, invoked>>
    /\ UNCHANGED coreVars
    /\ UNCHANGED watchVars

NextPrompt ==
    \/ GetModel
    \/ Attempt
    \/ Exhausted

\* every llm.invoke returns or raises, and the sleep before an attempt ends
SpecPrompt == InitPrompt /\ [][NextPrompt]_vars /\ WF_vars(NextPrompt)

-----------------------------------------------------------------------------
(* worker/tasks_periodic.py: check_all_repositories_for_changes *)

\* the largest number of passes
MaxPasses == 3

RepoIds == {1, 2}
Hashes == {"a1f0", "b2e1", "c3d2"}

\* redis_client.get(key) on the key of the repository: None when there is no
\* such key
Cached(r) == IF r \in DOMAIN cache THEN cache[r] ELSE NoHash

\* lines 28-49: get_latest_commit_hash; None when git ls-remote fails or
\* prints nothing
get_latest_commit_hash(r, ok) == IF ok THEN remote[r] ELSE NoHash

\* lines 52-59: get_cached_commit_hash; None when Redis raises
get_cached_commit_hash(r, ok) == IF ok THEN Cached(r) ELSE NoHash

\* lines 62-68: set_cached_commit_hash; the cache is left as it is when Redis
\* raises
set_cached_commit_hash(r, h, ok) ==
    IF ok THEN [q \in (DOMAIN cache) \cup {r} |-> IF q = r THEN h ELSE cache[q]]
    ELSE cache

InitWatch ==
    /\ pc = "beat"
    /\ cache = <<>>
    /\ \E S \in SUBSET RepoIds : remote \in [S -> Hashes]
    /\ last_check = FALSE
    /\ repos_left = <<>>
    /\ passes = 0
    /\ event = NoEvent
    /\ pass_result = "none"
    /\ SelectorIdle
    /\ ExtractIdle
    /\ SessionIdle
    /\ PromptIdle
    /\ JobsIdle

\* lines 107-147: the start of a pass, invoked by Celery Beat; the settings
\* row, the clock and Redis are what they are at that moment
StartPass ==
    /\ pc = "beat"
    /\ passes < MaxPasses
    /\ passes' = passes + 1
    /\ \E settings_obj \in {"none", "updates_disabled", "enabled"} :
       \E interval_reached, get_ok, set_ok \in BOOLEAN :
          LET last == IF get_ok THEN last_check ELSE FALSE
          IN IF settings_obj = "none"
             THEN /\ pass_result' = "skipped: no_settings"
                  /\ UNCHANGED <<pc, last_check, repos_left>>
             ELSE IF settings_obj = "updates_disabled"
             THEN /\ pass_result' = "skipped: updates_disabled"
                  /\ UNCHANGED <<pc, last_check, repos_left>>
             ELSE IF last /\ ~interval_reached
             THEN /\ pass_result' = "skipped: interval_not_reached"
                  /\ UNCHANGED <<pc, last_check, repos_left>>
             ELSE /\ last_check' = (IF set_ok THEN TRUE ELSE last_check)
                  /\ IF DOMAIN remote = {}
                     THEN /\ pass_result' = "success"
                          /\ UNCHANGED <<pc, repos_left>>
                     ELSE /\ repos_left' \in Listings(DOMAIN remote)
                          /\ pass_result' = "running"
                          /\ pc' = "checking"
    /\ UNCHANGED <<cache, remote, event>>
    /\ UNCHANGED coreVars
    /\ UNCHANGED promptVars

\* lines 155-229: one pass of the loop over the repositories, and the return
\* after the last of them
CheckRepo ==
    /\ pc = "checking"
    /\ repos_left # <<>>
    /\ LET r == Head(repos_left)
       IN \E ls_ok, get_ok, set_ok \in BOOLEAN :
          \E status \in {"documented", "error", "raised"} :
             LET latest_hash == get_latest_commit_hash(r, ls_ok)
                 cached_hash == get_cached_commit_hash(r, get_ok)
                 stored == set_cached_commit_hash(r, latest_hash, set_ok)
                 kept == IF r \in DOMAIN stored THEN stored[r] ELSE NoHash
                 Event(k, st, after) ==
                     [kind |-> k, repo |-> r, before |-> Cached(r), read |-> cached_hash,
                      latest |-> latest_hash, status |-> st, after |-> after]
             IN IF latest_hash = NoHash
                THEN /\ event' = Event("no hash", "", Cached(r))
                     /\ UNCHANGED cache
                ELSE IF cached_hash = NoHash
                THEN /\ cache' = stored
                     /\ event' = Event("first check", "", kept)
                ELSE IF cached_hash # latest_hash
                THEN IF status = "documented"
                     THEN /\ cache' = stored
                          /\ event' = Event("regenerate", status, kept)
                     ELSE /\ event' = Event("regenerate", status, Cached(r))
                          /\ UNCHANGED cache
                ELSE /\ event' = Event("no change", "", Cached(r))
                     /\ UNCHANGED cache
    /\ repos_left' = Tail(repos_left)
    /\ IF Len(repos_left) = 1
       THEN pc' = "beat" /\ pass_result' = "success"
       ELSE UNCHANGED <<pc, pass_result>>
    /\ UNCHANGED <<remote, last_check, passes>>
    /\ UNCHANGED coreVars
    /\ UNCHANGED promptVars

\* a commit is pushed to the remote of a repository
Push ==
    /\ pc \in {"beat", "checking"}
    /\ \E r \in DOMAIN remote :
       \E h \in Hashes \ {remote[r]} :
          remote' = [remote EXCEPT ![r] = h]
    /\ UNCHANGED <<pc, cache, last_check, repos_left, passes, event, pass_result>>
    /\ UNCHANGED coreVars
    /\ UNCHANGED promptVars

NextWatch ==
    \/ StartPass
    \/ CheckRepo
    \/ Push

SpecWatch == InitWatch /\ [][NextWatch]_vars

-----------------------------------------------------------------------------
(* worker/tasks_git.py: task_save_repo, and services/git_service.py *)

\* the largest number of executions of task_save_repo
MaxSaves == 3

\* str.endswith(suffix)
StrEndsWith(str, suffix) ==
    Len(str) >= Len(suffix) /\ SubSeq(str, Len(str) - Len(suffix) + 1, Len(str)) = suffix

\* str.replace(old, new, count): the first count occurrences, from the left
RECURSIVE StrReplace(_, _, _, _)
StrReplace(str, old, new, count) ==
    LET at == {i \in 1..(Len(str) - Len(old) + 1) : SubSeq(str, i, i + Len(old) - 1) = old}
    IN IF count = 0 \/ at = {} THEN str
       ELSE LET i == CHOOSE a \in at : \A b \in at : a <= b
            IN SubSeq(str, 1, i - 1) \o new
                 \o StrReplace(SubSeq(str, i + Len(old), Len(str)), old, new, count - 1)

\* str.replace(old, new)
StrReplaceAll(str, old, new) == StrReplace(str, old, new, Len(str))

\* [\w\.-]
IsHostChar(c) == c \in Chars /\ c # "/"

\* git_service.py lines 18-29: re.match(r'^(ssh://)?git@[\w\.-]+[:/].+', url)
is_ssh_url(url) ==
    LET rest == IF StrStartsWith(url, "ssh://") THEN SubSeq(url, 7, Len(url)) ELSE url
    IN /\ StrStartsWith(rest, "git@")
       /\ \E k \in 1..(Len(rest) - 6) :
             /\ \A i \in 5..(4 + k) : IsHostChar(CharAt(rest, i))
             /\ CharAt(rest, 5 + k) \in {":", "/"}
             /\ CharAt(rest, 6 + k) # "\n"

\* git_service.py lines 32-66: convert_ssh_to_https; "" stands for None
convert_ssh_to_https(ssh_url) ==
    IF StrStartsWith(ssh_url, "ssh://git@")
    THEN StrReplaceAll(ssh_url, "ssh://git@", "https://")
    ELSE IF StrStartsWith(ssh_url, "git@")
    THEN "https://" \o StrReplace(SubSeq(ssh_url, 5, Len(ssh_url)), ":", "/", 1)
    ELSE ""

\* git_service.py lines 69-108: normalize_repo_url
normalize_repo_url(repo_url) ==
    LET stripped == StrStrip(repo_url)
        https_url == convert_ssh_to_https(stripped)
        converted == IF is_ssh_url(stripped) /\ https_url # "" THEN https_url ELSE stripped
        secured == IF StrStartsWith(converted, "http://")
                   THEN StrReplace(converted, "http://", "https://", 1)
                   ELSE converted
        suffixed == IF StrEndsWith(secured, ".git") THEN secured ELSE secured \o ".git"
    IN StrLowerAny(StrReplaceAll(suffixed, "/.git", ".git"))

\* tasks_git.py line 28: repo_url.split("/")[-1].replace(".git", "")
RepoName(repo_url) ==
    LET slashes == {i \in 1..Len(repo_url) : CharAt(repo_url, i) = "/"}
        last == IF slashes = {} THEN 0 ELSE CHOOSE i \in slashes : \A j \in slashes : j <= i
    IN StrReplaceAll(SubSeq(repo_url, last + 1, Len(repo_url)), ".git", "")

\* the URLs that are submitted
RepoUrls ==
    {"https://github.com/acme/repo.git",
     "git@github.com:acme/repo.git",
     "https://github.com/Acme/Repo",
     "https://gitlab.com/team/repo",
     "ssh://git@github.com/acme/tool.git",
     "http://github.com/acme/tool/"}

\* what validate_repo_url reports
Validations == {"success", "ssh_auth", "ssh_host_key", "not_found"}

\* tasks_git.py lines 69-76: the row that is added; the key is drawn from the
\* sequence of the table
NewRepo(repo_url) ==
    [id |-> Len(repo_table) + 1, repo_name |-> RepoName(repo_url), repo_url |-> repo_url]

Ended(w, r) == tasks' = [tasks EXCEPT ![w] = [@ EXCEPT !.at = "done", !.result = r]]

Moved(w, position) == tasks' = [tasks EXCEPT ![w] = [@ EXCEPT !.at = position]]

InitSave ==
    /\ pc = "queue"
    /\ SaveIdle
    /\ DocuIdle
    /\ SelectorIdle
    /\ ExtractIdle
    /\ SessionIdle
    /\ PromptIdle
    /\ WatchIdle

\* lines 12-24 and 120-123: a worker takes an execution from the queue and
\* validates the URL
Validate(w) ==
    /\ tasks[w].at \in {"idle", "done"}
    /\ saves < MaxSaves
    /\ saves' = saves + 1
    /\ \E repo_url \in RepoUrls :
       \E validation \in Validations :
          tasks' = [tasks EXCEPT ![w] =
                      IF validation = "not_found"
                      THEN [at |-> "done", repo_url |-> repo_url, ssh_auth_error |-> FALSE,
                            result |-> "error: validation"]
                      ELSE [at |-> "validated", repo_url |-> repo_url,
                            ssh_auth_error |-> validation # "success",
                            result |-> "none"]]
    /\ UNCHANGED repo_table
    /\ UNCHANGED outsideSave

\* lines 25-50 and 111-119: the rows of the table are read and compared by
\* normalized URL
CheckUrl(w) ==
    /\ tasks[w].at = "validated"
    /\ \E db_ok \in BOOLEAN :
          LET normalized_url == normalize_repo_url(tasks[w].repo_url)
              existing_repos == repo_table
          IN IF ~db_ok THEN Ended(w, "error: Database error")
             ELSE IF \E i \in 1..Len(existing_repos) :
                        normalize_repo_url(existing_repos[i].repo_url) = normalized_url
             THEN Ended(w, "error: already exists")
             ELSE Moved(w, "url checked")
    /\ UNCHANGED <<repo_table, saves>>
    /\ UNCHANGED outsideSave

\* lines 52-65 and 111-119: a row of the same name is looked for
CheckName(w) ==
    /\ tasks[w].at = "url checked"
    /\ \E db_ok \in BOOLEAN :
          LET repo_name == RepoName(tasks[w].repo_url)
          IN IF ~db_ok THEN Ended(w, "error: Database error")
             ELSE IF \E i \in 1..Len(repo_table) : repo_table[i].repo_name = repo_name
             THEN Ended(w, "error: name exists")
             ELSE Moved(w, "name checked")
    /\ UNCHANGED <<repo_table, saves>>
    /\ UNCHANGED outsideSave

\* lines 67-110 and 111-119: the row is added and committed
Insert(w) ==
    /\ tasks[w].at = "name checked"
    /\ \E db_ok \in BOOLEAN :
          IF db_ok
          THEN /\ repo_table' = Append(repo_table, NewRepo(tasks[w].repo_url))
               /\ Ended(w, IF tasks[w].ssh_auth_error THEN "success with warning"
                           ELSE "success")
          ELSE /\ Ended(w, "error: Database error")
               /\ UNCHANGED repo_table
    /\ UNCHANGED saves
    /\ UNCHANGED outsideSave

NextSave ==
    \E w \in Workers :
       \/ Validate(w)
       \/ CheckUrl(w)
       \/ CheckName(w)
       \/ Insert(w)

SpecSave == InitSave /\ [][NextSave]_vars

-----------------------------------------------------------------------------
(* services/ai_service.py: generate_docu *)

\* the largest number of calls of generate_docu
MaxCalls == 3

\* line 363: tempfile.mkdtemp(prefix=f"repo_clone_{repo_id}_") makes a
\* directory of a name not in use
mkdtemp(repo_id, n) == <<repo_id, n>>

\* the directory of the call, when it has made one
TempDirOf(c) == c.temp_dir[1]

\* faulty variant, used to test the properties: the directory is cleaned up
\* only after the documentation was saved
CleanupAfterSuccess(c, dirs, status, rmtree_ok) ==
    IF c.temp_dir = None THEN "none"
    ELSE IF status # "documented" THEN "none"
    ELSE IF TempDirOf(c) \notin dirs THEN "absent"
    ELSE IF rmtree_ok THEN "removed"
    ELSE "failed"

\* lines 516-524: what the finally block does with the directory, dirs being
\* the directories that exist: nothing when temp_dir is None or the path does
\* not exist, else shutil.rmtree, whose exception is logged and swallowed
Cleanup(c, dirs, status, rmtree_ok) ==
    IF c.temp_dir = None THEN "none"
    ELSE IF TempDirOf(c) \notin dirs THEN "absent"
    ELSE IF rmtree_ok THEN "removed"
    ELSE "failed"

\* the return of a result dictionary of that status on that path, after the
\* finally block
Return(c, dirs, path, status) ==
    \E rmtree_ok \in BOOLEAN :
       LET cleanup == Cleanup(c, dirs, status, rmtree_ok)
       IN /\ docu' = [c EXCEPT !.at = "returned", !.path = path, !.result = status,
                               !.cleanup = cleanup]
          /\ disk' = IF cleanup = "removed" THEN dirs \ {TempDirOf(c)} ELSE dirs

InitDocu ==
    /\ pc = "caller"
    /\ DocuIdle
    /\ SaveIdle
    /\ SelectorIdle
    /\ ExtractIdle
    /\ SessionIdle
    /\ PromptIdle
    /\ WatchIdle

\* lines 348-364: the call, the lookup of the repository and the creation of
\* the temporary directory
Begin ==
    /\ docu.at \in {"idle", "returned"}
    /\ docu_calls < MaxCalls
    /\ docu_calls' = docu_calls + 1
    /\ \E repo_id \in RepoIds :
       \E lookup \in {"found", "not found", "raised"} :
       \E mkdtemp_ok \in BOOLEAN :
          LET c == [NoCall EXCEPT !.repo_id = repo_id]
          IN IF lookup = "not found" THEN Return(c, disk, "repository not found", "error")
             ELSE IF lookup = "raised" \/ ~mkdtemp_ok
             THEN Return(c, disk, "unexpected exception", "error")
             ELSE /\ docu' = [c EXCEPT !.at = "cloning",
                                       !.temp_dir = Some(mkdtemp(repo_id, docu_calls'))]
                  /\ disk' = disk \cup {mkdtemp(repo_id, docu_calls')}
    /\ UNCHANGED outsideDocu

\* lines 366-403: git clone into the directory; a clone that fails may take
\* the directory away with what it wrote
Clone ==
    /\ docu.at = "cloning"
    /\ \E outcome \in {"cloned", "failed", "raised"} :
       \E left \in BOOLEAN :
          IF outcome = "cloned"
          THEN /\ docu' = [docu EXCEPT !.at = "cloned"]
               /\ UNCHANGED disk
          ELSE Return(docu, IF left THEN disk ELSE disk \ {TempDirOf(docu)},
                      IF outcome = "failed" THEN "clone failure" ELSE "clone exception",
                      "error")
    /\ UNCHANGED docu_calls
    /\ UNCHANGED outsideDocu

\* lines 408-445: the prompt is read and the content of the clone is extracted
Prepare ==
    /\ docu.at = "cloned"
    /\ \E raised \in BOOLEAN :
          IF raised THEN Return(docu, disk, "unexpected exception", "error")
          ELSE /\ docu' = [docu EXCEPT !.at = "prompted"]
               /\ UNCHANGED disk
    /\ UNCHANGED docu_calls
    /\ UNCHANGED outsideDocu

\* lines 447-459: send_prompt returns the documentation or raises
Send ==
    /\ docu.at = "prompted"
    /\ \E raised \in BOOLEAN :
          IF raised THEN Return(docu, disk, "LLM error", "error")
          ELSE /\ docu' = [docu EXCEPT !.at = "answered"]
               /\ UNCHANGED disk
    /\ UNCHANGED docu_calls
    /\ UNCHANGED outsideDocu

\* lines 461-515: the documentation is saved; a failure is rolled back, and a
\* rollback that fails is caught by the outer handler
Save ==
    /\ docu.at = "answered"
    /\ \E commit_ok, rollback_ok \in BOOLEAN :
          IF commit_ok THEN Return(docu, disk, "success", "documented")
          ELSE IF rollback_ok THEN Return(docu, disk, "database error", "error")
          ELSE Return(docu, disk, "unexpected exception", "error")
    /\ UNCHANGED docu_calls
    /\ UNCHANGED outsideDocu

NextDocu ==
    \/ Begin
    \/ Clone
    \/ Prepare
    \/ Send
    \/ Save

SpecDocu == InitDocu /\ [][NextDocu]_vars

-----------------------------------------------------------------------------
(* What a returned string holds *)

IsFileSection(p) == p.kind = "### File:"

\* the '### File:' sections of a sequence of parts, in order
FileSections(parts) == SelectSeq(parts, IsFileSection)

HasSection(parts, f) ==
    \E i \in 1..Len(parts) : IsFileSection(parts[i]) /\ parts[i].str = PathStr(f.path)

\* the files of the tree that have a section in the returned string
IncludedFiles == {f \in tree : HasSection(result, f)}

RECURSIVE SumSizes(_)
SumSizes(S) ==
    IF S = {} THEN 0
    ELSE LET f == CHOOSE x \in S : TRUE IN f.size + SumSizes(S \ {f})

\* the files that the walk accepts: stat() succeeds and the tests pass
Candidates == {f \in tree : IsCandidate(target_dir, f, max_file_size) /\ f.stable}

Returned == pc = "done" /\ root_exists

\* the call has returned and its walk was not ended by an exception
Completed ==
    Returned /\ \A i \in 1..Len(result) : result[i] # ExtractErrorPart

\* the survey of the header stops at an entry that cannot be examined
SurveyFails ==
    \E p \in EntryPaths(tree) :
        /\ IsYielded(p, unsearchable)
        /\ IsRecorded(target_dir, p, max_depth)
        /\ CannotExamine(p, unsearchable)

\* every entry can be examined and no file is removed during the call
QuietFileSystem == unsearchable = {} /\ \A f \in tree : f.stable

-----------------------------------------------------------------------------
(* Claims *)

\* C1: the byte sizes of the files that have a section in the returned string
\* sum to at most the total-size budget of 500,000 bytes, that sum is the
\* running total the selection kept, and a candidate is included whole or not
\* at all: a candidate without a section adds nothing to the total.
C1_BudgetInvariant ==
    /\ total_size <= max_total_size
    /\ Returned => SumSizes(IncludedFiles) <= max_total_size
    /\ Completed =>
          /\ SumSizes(IncludedFiles) = total_size
          /\ IncludedFiles = Range(code_files)

\* C1 witness: a call has returned in which a candidate was left out because
\* its size would have pushed the total over the budget, while files are
\* included.
C1_Witness ==
    /\ Returned
    /\ IncludedFiles # {}
    /\ Len(code_files) < max_files
    /\ \E f \in Candidates \ IncludedFiles : total_size + f.size > max_total_size

\* C2: the number of '### File:' sections never exceeds max_files, in the
\* returned string and while the string is built.
C2_CountInvariant ==
    /\ Len(FileSections(content_parts)) <= max_files
    /\ Len(FileSections(result)) <= max_files

\* C2 witness: a call has returned with exactly max_files sections although
\* there were more candidates than that.
C2_Witness ==
    /\ Returned
    /\ max_files > 0
    /\ Len(FileSections(result)) = max_files
    /\ Cardinality(Candidates) > max_files

\* C3: a file whose size is greater than max_file_size is never in code_files
\* (not after the walk, before any read, nor later) and never gets a section.
C3_PerFileCap ==
    \A f \in tree :
        f.size > max_file_size =>
            /\ f \notin Range(code_files)
            /\ ~HasSection(content_parts, f)
            /\ ~HasSection(result, f)

\* C3 witness: a call has returned on a tree that holds a file over the cap,
\* which no other rule excludes, and another file has its section.
C3_Witness ==
    /\ Returned
    /\ IncludedFiles # {}
    /\ \E f \in tree :
          /\ f.size > max_file_size
          /\ IsCandidate(target_dir, f, f.size)

NamedSkipDirectories == {"node_modules", ".git", "__pycache__"}

\* the file lies inside a directory named node_modules, .git or __pycache__
InNamedSkipDirectory(f) ==
    \E i \in 1..(Len(f.path) - 1) : f.path[i] \in NamedSkipDirectories

\* C4: a file inside a directory named node_modules, .git or __pycache__, at
\* any depth, is never in code_files and never gets a section.
C4_ExclusionCorrectness ==
    \A f \in tree :
        InNamedSkipDirectory(f) =>
            /\ f \notin Range(code_files)
            /\ ~HasSection(content_parts, f)
            /\ ~HasSection(result, f)

\* C4 witness: a call has returned on a tree that holds such a file, with a
\* recognised extension and a size below the cap, while another file has its
\* section.
C4_Witness ==
    /\ Returned
    /\ IncludedFiles # {}
    /\ \E f \in tree :
          /\ InNamedSkipDirectory(f)
          /\ HasCodeExtension(PathName(f.path))
          /\ f.size <= max_file_size

\* no candidate was passed over for its size: the file-count limit alone
\* decides what is left out
CountLimitBinding ==
    \A c \in Candidates \ IncludedFiles : total_size + c.size <= max_total_size

ExampleIncluded ==
    {f \in Universe : f.path \in {<<"README.md">>, <<"setup.py">>, <<"main.py">>}}

\* C5: when the walk completes and the file-count limit alone decides, the included files are the
\* max_files candidates with the lowest keys: no candidate left out has a
\* lower key, or a lower tier, than an included file; and the tree README.md,
\* setup.py, main.py, random.py with max_files = 3 gives exactly README.md,
\* setup.py and main.py.
C5_PriorityOrdering ==
    (Completed /\ CountLimitBinding) =>
        /\ Cardinality(IncludedFiles) = Min(max_files, Cardinality(Candidates))
        /\ \A s \in IncludedFiles : \A c \in Candidates \ IncludedFiles :
              /\ ~KeyLess(file_priority(target_dir, c), file_priority(target_dir, s))
              /\ file_priority(target_dir, s)[1] <= file_priority(target_dir, c)[1]
        /\ (tree = ExampleTree /\ max_files = 3 /\ Candidates = ExampleTree)
              => IncludedFiles = ExampleIncluded

\* C5 witness: the call on the example tree with max_files = 3 has returned
\* with all four files candidates.
C5_Witness ==
    /\ Returned
    /\ tree = ExampleTree
    /\ max_files = 3
    /\ Candidates = ExampleTree
    /\ CountLimitBinding

\* the string that a call returns when the walk yields the candidates in
\* the order `order`
OutputFor(order) ==
    LET sel == SelectLoop(SortByPriority(target_dir, order), <<>>, 0, max_files)
    IN HeaderParts(target_dir, structure)
       \o <<CodeFilesPart(Len(sel.selected_files), sel.total_size \div 1024)>>
       \o AllFileParts(sel.selected_files, max_file_size)

\* C6: on a file system where every entry can be examined and nothing
\* changes, the returned string does not depend on the order in which the
\* walk enumerates the entries: it is the string of every other possible order.
C6_Deterministic ==
    (Returned /\ QuietFileSystem) => \A order \in WalkOrders(Candidates) : result = OutputFor(order)

\* the Surveyor leaves the entry out by rule (whatever its depth)
SurveyorExcludes(root, path) == InGitDirectory(ItemParts(root, path))

\* the Selector leaves the entry out by rule (skip directory or skip name)
SelectorExcludes(root, path) ==
    \/ InSkippedDirectory(ItemParts(root, path))
    \/ IsSkippedFile(PathName(path))

Entries == {f.path : f \in tree} \cup DirectoriesOf(tree)

\* the directory is listed in the header of the returned string
IsListed(parts, d) ==
    \E i \in 1..Len(parts) : parts[i] = DirectoryPart(PathStr(d))

ShallowDirectories == {d \in DirectoriesOf(tree) : Len(d) <= STRUCTURE_MAX_DEPTH}

\* C7 as stated: the Surveyor and the Selector exclude the same entries,
\* so the header of a returned string (of a survey that met no error) lists
\* a directory exactly if the Selector's rules do not exclude it.
C7_SameExclusions ==
    (Returned /\ ~SurveyFails) =>
        /\ \A e \in Entries : SurveyorExcludes(target_dir, e) <=> SelectorExcludes(target_dir, e)
        /\ \A d \in ShallowDirectories : IsListed(result, d) <=> ~SelectorExcludes(target_dir, d)

\* C7 as amended: every entry the Surveyor excludes, the Selector excludes
\* as well: a directory missing from the header is one the Selector skips,
\* (when the survey met no error), and no file the walk accepted lies in a
\* directory the Surveyor leaves out.
C7_SurveyorExclusionsInSelector ==
    root_exists =>
        /\ \A e \in Entries : SurveyorExcludes(target_dir, e) => SelectorExcludes(target_dir, e)
        /\ \A f \in Range(code_files) : ~SurveyorExcludes(target_dir, f.path)
        /\ (Returned /\ ~SurveyFails) =>
              \A d \in ShallowDirectories :
                  ~IsListed(result, d) => SelectorExcludes(target_dir, d)

\* C7 witness: a call has returned on a tree with a file in .git, which has
\* no section, and with an entry that only the Selector excludes, while a
\* file has its section.
C7_Witness ==
    /\ Returned
    /\ IncludedFiles # {}
    /\ \E d \in ShallowDirectories : ~IsListed(result, d)
    /\ \E d \in ShallowDirectories : IsListed(result, d) /\ SelectorExcludes(target_dir, d)

\* C8: when the root does not exist, the call returns the string
\* 'Repository directory not found.' alone: no header, no file section.
C8_NonexistentRoot ==
    (pc = "done" /\ ~root_exists) =>
        /\ result = <<NotFoundPart>>
        /\ content_parts = <<>>

\* C8 witness: a call on a root that does not exist has returned.
C8_Witness == pc = "done" /\ ~root_exists /\ result # <<>>

\* C9: for an existing directory with no entries, the returned string holds
\* the 'Directory Structure' header and no '### File:' section.
C9_EmptyRepository ==
    (Returned /\ tree = {}) =>
        /\ \E i \in 1..Len(result) : result[i] = DirectoryStructurePart
        /\ FileSections(result) = <<>>

\* C9 witness: a call on an existing, empty directory has returned.
C9_Witness == Returned /\ tree = {} /\ result # <<>>

\* C10: for a content shorter than 3000 characters, whatever the extension,
\* _extract_code_structure returns the content unchanged.
C10_SmallFilePassthrough ==
    (pc = "extracted" /\ TextLen(content) < 3000) => extracted = content

\* C10 witness: the call has returned for a Python content of 2999 characters
\* and more than 50 lines, some of which the keyword filter would drop.
C10_Witness ==
    /\ pc = "extracted"
    /\ file_extension = ".py"
    /\ TextLen(content) = 2999
    /\ Len(content) > 50
    /\ Len(KeepLines(content, PyPrefixes)) \in 1..(Len(content) - 1)

\* the prefixes of the family of an extension that has a keyword filter
KeywordPrefixes(ext) ==
    IF ext \in PyExtensions THEN PyPrefixes
    ELSE IF ext \in JsExtensions THEN JsPrefixes
    ELSE IF ext \in JavaExtensions THEN JavaPrefixes
    ELSE {}

\* the positions of the lines of a content whose stripped form starts with one
\* of the prefixes
MatchingPositions(lines, prefixes) ==
    {i \in 1..Len(lines) : StartsWithAny(LineStrip(lines[i]), prefixes)}

\* the k-th smallest element of a set of numbers
NthOf(S, k) == CHOOSE i \in S : Cardinality({j \in S : j < i}) = k - 1

\* the sum of the lengths of the lines at the positions of S
RECURSIVE SumLengthsAt(_, _)
SumLengthsAt(lines, S) ==
    IF S = {} THEN 0
    ELSE LET i == CHOOSE x \in S : TRUE
         IN LineLen(lines[i]) + SumLengthsAt(lines, S \ {i})

\* the content is large, its extension has a keyword filter and the matching
\* lines total at least 100 characters
LargeKeywordCase ==
    /\ pc = "extracted"
    /\ TextLen(content) >= 3000
    /\ KeywordPrefixes(file_extension) # {}
    /\ SumLengthsAt(content, MatchingPositions(content, KeywordPrefixes(file_extension))) >= 100

\* the content of the example: 3 import lines, 1 class line, 2 def lines and
\* 400 filler lines, 5000 characters in all
ExampleContent == MakeText(PyHead, 400, 5000)

\* C11: for a content of 3000 characters or more, with an extension of a
\* keyword-filtered family, whose matching lines total at least 100
\* characters, the returned text is the matching lines, each one once and in
\* the order of the content, followed by the 'full implementation details
\* omitted' marker as last line, and nothing else; for the example content
\* these are the 6 structural lines and the result is shorter than the input.
C11_LargeFileExtraction ==
    LargeKeywordCase =>
        LET matching == MatchingPositions(content, KeywordPrefixes(file_extension))
            n == Cardinality(matching)
        IN /\ Len(extracted) = n + 1
           /\ \A k \in 1..n : extracted[k] = content[NthOf(matching, k)]
           /\ extracted[n + 1] = DetailsOmitted
           /\ (content = ExampleContent /\ file_extension = ".py") =>
                 /\ n = 6
                 /\ TextLen(extracted) < TextLen(content)

\* C11 witness: the call has returned for the example content with the
\* extension .py: an indented def line is among the 6 matching lines and 401
\* lines do not match.
C11_Witness ==
    /\ LargeKeywordCase
    /\ content = ExampleContent
    /\ file_extension = ".py"
    /\ Len(content) = 407
    /\ \E i \in MatchingPositions(content, PyPrefixes) : content[i] # LineStrip(content[i])

\* the position of the section header of the file f in a sequence of parts
SectionStart(parts, f) ==
    CHOOSE i \in 1..Len(parts) : IsFileSection(parts[i]) /\ parts[i].str = PathStr(f.path)

\* the parts of the section of f: those after its header, up to the next
\* section header or the end
SectionOf(parts, f) ==
    LET i == SectionStart(parts, f)
        later == {j \in (i + 1)..Len(parts) : IsFileSection(parts[j])}
        end == IF later = {} THEN Len(parts)
               ELSE (CHOOSE j \in later : \A k \in later : j <= k) - 1
    IN SubSeq(parts, i + 1, end)

\* the section holds the content of f, as it was read or as the extractor
\* reduced it, between the two fences
HoldsContent(section, f) ==
    LET read == ReadFile(f, max_file_size)
    IN /\ Len(section) >= 3
       /\ section[1].kind = "code fence open"
       /\ section[2] \in {ContentPart(read),
                          ContentPart(_extract_code_structure(read, PathSuffix(PathName(f.path))))}
       /\ section[Len(section)] = FenceClosePart
       /\ \A i \in 1..Len(section) : section[i] # ReadErrorPart

\* a selected file could not be read
ReadFailed == \E f \in Range(code_files) : ~f.readable

\* C12: when the read of a selected file fails, the call still returns; the
\* section of that file holds the 'Error reading file' line and nothing else,
\* and every other selected file has its section with its content.
C12_PerFileReadError ==
    (Completed /\ ReadFailed) =>
        \A f \in Range(code_files) :
            /\ HasSection(result, f)
            /\ ~f.readable => SectionOf(result, f) = <<ReadErrorPart>>
            /\ f.readable => HoldsContent(SectionOf(result, f), f)

\* C12 witness: a call has returned in which a selected file could not be
\* read, with the section of a readable file before it and of another one
\* after it.
C12_Witness ==
    /\ Returned
    /\ \E f, g, h \in Range(code_files) :
          /\ g.readable /\ ~f.readable /\ h.readable
          /\ HasSection(result, f) /\ HasSection(result, g) /\ HasSection(result, h)
          /\ SectionStart(result, g) < SectionStart(result, f)
          /\ SectionStart(result, f) < SectionStart(result, h)

\* the strings of a list are in ascending order
IsAscending(list) ==
    \A i, j \in 1..Len(list) : i < j => StrLess(list[i], list[j])

Surveyed == pc = "surveyed"

\* C13 as stated: on every return path of get_repository_structure, the
\* walk ended by an error included, the files list and the directories list
\* of the summary are in ascending order.
C13_SortedOnEveryPath ==
    Surveyed => IsAscending(structure.files) /\ IsAscending(structure.directories)

\* the names of the list are names of the set S, each one at most once
ListsOnly(list, S) ==
    /\ \A i \in 1..Len(list) : list[i] \in S
    /\ \A i, j \in 1..Len(list) : i # j => list[i] # list[j]

RecordedFiles ==
    {PathStr(f.path) : f \in {g \in tree : IsRecorded(target_dir, g.path, max_depth)}}

RecordedDirectories ==
    {PathStr(d) : d \in {e \in DirectoriesOf(tree) : IsRecorded(target_dir, e, max_depth)}}

\* the entries directly below the root that the survey records
RecordedAtRoot ==
    {PathStr(p) : p \in {q \in EntryPaths(tree) :
                            Len(q) = 1 /\ IsRecorded(target_dir, q, max_depth)}}

\* C14: get_repository_structure never raises; for a root that does not
\* exist the summary has no file and no directory; when an entry cannot be
\* examined the summary holds what was collected before it: entries that the
\* rules record, each once, none of them from the directory that cannot be
\* searched, and all the recorded entries directly below the root, which are
\* met before the entries of any directory.
C14_SurveyorNeverRaises ==
    /\ pc # "raised"
    /\ (Surveyed /\ ~root_exists) =>
          structure.files = <<>> /\ structure.directories = <<>>
    /\ (Surveyed /\ root_exists /\ SurveyFails) =>
          /\ ListsOnly(structure.files, RecordedFiles)
          /\ ListsOnly(structure.directories, RecordedDirectories)
          /\ \A f \in tree : CannotExamine(f.path, unsearchable) =>
                \A i \in 1..Len(structure.files) : structure.files[i] # PathStr(f.path)
          /\ RecordedAtRoot \subseteq
                (Range(structure.files) \cup Range(structure.directories))

\* C14 witness: a call has returned on a tree with an entry that cannot be
\* examined, after it collected a file and a directory.
C14_Witness ==
    /\ Surveyed
    /\ root_exists
    /\ SurveyFails
    /\ structure.files # <<>>
    /\ structure.directories # <<>>

\* the token was created, delete_session has not removed it, and the clock
\* is not later than the creation time plus 8 hours
IsValidSession(token) ==
    /\ token \in DOMAIN issued
    /\ token \notin deleted
    /\ now <= issued[token].created_at + 8

\* C15: after any sequence of calls and clock advances, get_session(token)
\* returns the user data stored by create_session exactly when the token was
\* created, has not been deleted and the clock is not later than its expiry,
\* which is its creation time plus 8 hours; otherwise it returns None, and
\* the token is then not in the store (an expired one has been removed).
C15_SessionValidity ==
    /\ \A t \in DOMAIN issued : issued[t].expires_at = issued[t].created_at + 8
    /\ call.op = "get_session" =>
          IF IsValidSession(call.token)
          THEN call.value = Some(issued[call.token].user)
          ELSE call.value = None /\ call.token \notin DOMAIN _sessions

\* C15 witness: get_session has returned the user data of a token at the very
\* hour of its expiry, while another token, created and never deleted, has
\* left the store because it expired.
C15_Witness ==
    /\ call.op = "get_session"
    /\ call.value # None
    /\ now = issued[call.token].expires_at
    /\ \E t \in DOMAIN issued : t \notin deleted /\ t \notin DOMAIN _sessions

\* the sum of the sizes of the files of list at the positions of I
RECURSIVE SumSizesAt(_, _)
SumSizesAt(list, I) ==
    IF I = {} THEN 0
    ELSE LET i == CHOOSE x \in I : TRUE
         IN list[i].size + SumSizesAt(list, I \ {i})

\* I holds exactly the positions of the list at which, with the files
\* selected before, fewer than limit files are selected and the running
\* total plus the size of the file does not exceed the budget
IsGreedySelection(list, I, limit) ==
    \A i \in 1..Len(list) :
        i \in I <=>
            LET before == {j \in I : j < i}
            IN /\ Cardinality(before) < limit
               /\ SumSizesAt(list, before) + list[i].size <= 500000

\* the files of the list at the positions of I, in the order of the list
Restriction(list, I) ==
    [k \in 1..Cardinality(I) |-> list[NthOf(I, k)]]

\* C16: the selection step scans the candidates in ascending order of their
\* keys and selects
\* a candidate exactly if, when it is scanned, fewer than max_files candidates
\* are selected and the running total plus its size does not exceed the
\* budget; the selected files keep the order of the list and the total is the
\* sum of their sizes; a candidate that does not fit is passed over and the
\* scan goes on.
C16_GreedySelection ==
    [][pc = "select" =>
          /\ \A i, j \in 1..Len(code_files) :
                i < j => ~KeyLess(file_priority(target_dir, code_files[j]),
                                  file_priority(target_dir, code_files[i]))
          /\ \E I \in SUBSET (1..Len(code_files)) :
              /\ IsGreedySelection(code_files, I, max_files)
              /\ code_files' = Restriction(code_files, I)
              /\ total_size' = SumSizesAt(code_files, I)]_vars

\* C16 witness: a call has returned in which a candidate was passed over for
\* its size although fewer than max_files were selected, and a candidate
\* with a greater key, scanned after it, is included: the selection is not a
\* prefix of the sorted list.
C16_Witness ==
    /\ Completed
    /\ Len(code_files) < max_files
    /\ \E c \in Candidates \ IncludedFiles : \E f \in IncludedFiles :
          KeyLess(file_priority(target_dir, c), file_priority(target_dir, f))

\* the tier that file_priority gives the file
TierOf(f) == file_priority(target_dir, f)[1]

LowerName(f) == StrLower(PathName(f.path))

\* the file f comes before g by size, and by lowercase name when the sizes
\* are equal
SizeThenName(f, g) ==
    /\ f.size <= g.size
    /\ f.size = g.size => ~StrLess(LowerName(g), LowerName(f))

\* the pairs of positions of the sorted list that hold files of one tier
SameTierPairs ==
    {p \in (1..Len(code_files)) \X (1..Len(code_files)) :
        p[1] < p[2] /\ TierOf(code_files[p[1]]) = TierOf(code_files[p[2]])}

\* C17 as stated: in the sorted list, of two candidates of the same tier,
\* whatever the tier, the smaller one comes first, and candidates of equal
\* size are in the order of their lowercase names.
C17_SizeBreaksTiesInEveryTier ==
    pc = "select" =>
        \A p \in SameTierPairs : SizeThenName(code_files[p[1]], code_files[p[2]])

\* C17 as amended: that holds for the tiers 3 to 7; in the tiers 0 to 2 the
\* size is not looked at, and two candidates of the same tier are in the
\* order of their lowercase names, whatever their sizes.
C17_SizeBreaksTiesFromTier3 ==
    pc = "select" =>
        \A p \in SameTierPairs :
            IF TierOf(code_files[p[1]]) >= 3
            THEN SizeThenName(code_files[p[1]], code_files[p[2]])
            ELSE ~StrLess(LowerName(code_files[p[2]]), LowerName(code_files[p[1]]))

\* C17 witness: the sorted list holds two files of tier 2, the larger one
\* first because its name is the lower one.
C17_Witness ==
    /\ pc = "select"
    /\ \E p \in SameTierPairs :
          /\ TierOf(code_files[p[1]]) = 2
          /\ code_files[p[1]].size > code_files[p[2]].size
          /\ StrLess(LowerName(code_files[p[1]]), LowerName(code_files[p[2]]))

\* the walk of the Selector examines the entry: neither skip rule applies
SelectorExamines(p) ==
    /\ ~InSkippedDirectory(ItemParts(target_dir, p))
    /\ ~IsSkippedFile(PathName(p))

\* the entries on which the walk of the Selector meets an error: is_file()
\* raises, or the file is removed before stat()
FailingEntries ==
    {p \in EntryPaths(tree) :
        /\ IsYielded(p, unsearchable)
        /\ SelectorExamines(p)
        /\ \/ CannotExamine(p, unsearchable)
           \/ \E f \in tree : f.path = p /\ ~f.stable /\ HasCodeExtension(PathName(p))}

\* the candidates on which the walk meets no error
SoundCandidates == {f \in Candidates : f.path \notin FailingEntries}

\* neither the file count nor the byte budget leaves a candidate out
AllFit ==
    /\ Cardinality(SoundCandidates) <= max_files
    /\ SumSizes(SoundCandidates) <= max_total_size

\* C18 as stated: when the walk of extract_repository_content meets an error
\* on an entry, the entry is skipped and the walk goes on: every other
\* candidate, found before or after it, is selected (when all of them fit)
\* and has its section in the returned string.
C18_WalkContinuesAfterError ==
    (Returned /\ FailingEntries # {} /\ AllFit) =>
        \A f \in SoundCandidates : HasSection(result, f)

\* the first 3000 characters of the content followed by the truncation
\* marker
IsRawTruncation(text, out) ==
    LET n == Len(out) - 1
    IN /\ n >= 1
       /\ out[n + 1] = TruncatedForBrevity
       /\ TextLen(SubSeq(out, 1, n)) = 3000
       /\ \A i \in 1..(n - 1) : out[i] = text[i]
       /\ out[n] = LineCut(text[n], LineLen(out[n]))

\* C19: no exception leaves extract_repository_content (for a root that
\* exists) or _extract_code_structure: whatever fails in the survey, the
\* walk or a read, the call is never left by an exception, and what it
\* returns is a string that begins with the title; when the keyword filter of
\* _extract_code_structure matches no line of a large content, the result is
\* the first 3000 characters followed by the truncation marker.
C19_NeverPropagates ==
    /\ pc # "raised"
    /\ Returned => (Len(result) >= 1 /\ result[1] = TitlePart)
    /\ (/\ pc = "extracted"
        /\ TextLen(content) >= 3000
        /\ KeywordPrefixes(file_extension) # {}
        /\ MatchingPositions(content, KeywordPrefixes(file_extension)) = {})
          => IsRawTruncation(content, extracted)

\* C19 witness: a call has returned on a tree where both the survey and the
\* walk stopped at an entry that cannot be examined; the returned string
\* holds the header and the error line.
C19_Witness ==
    /\ Returned
    /\ SurveyFails
    /\ \E p \in FailingEntries : CannotExamine(p, unsearchable)
    /\ \E i \in 1..Len(result) : result[i] = ExtractErrorPart

\* the suffixes of the documentation and configuration files
DocumentSuffixes == {".md", ".txt", ".json", ".yml", ".yaml", ".toml", ".xml"}

\* the name of the file contains 'readme', in any case
NamesReadme(f) ==
    \E i \in 1..Len(PathName(f.path)) :
        \E j \in i..Len(PathName(f.path)) :
            StrLower(SubSeq(PathName(f.path), i, j)) = "readme"

\* the section of f holds the marker '... (truncated)'
HasTruncatedMarker(section) == \E i \in 1..Len(section) : section[i] = TruncatedPart

\* C20: in the returned string, the section of a selected file that could be
\* read holds, between the fences, the content exactly as it was read when
\* the file has a documentation suffix or a name containing 'readme', and
\* the result of _extract_code_structure on it otherwise; the marker
\* '... (truncated)' is only in the section of a file embedded as read, and
\* only when the read returned max_file_size characters.
C20_VerbatimOrExtracted ==
    Completed =>
        \A f \in Range(code_files) :
            f.readable =>
                LET section == SectionOf(result, f)
                    read == ReadFile(f, max_file_size)
                    suffix == PathSuffix(PathName(f.path))
                IN /\ Len(section) >= 3
                   /\ section[1].kind = "code fence open"
                   /\ section[Len(section)] = FenceClosePart
                   /\ IF suffix \in DocumentSuffixes \/ NamesReadme(f)
                      THEN /\ section[2] = ContentPart(read)
                           /\ HasTruncatedMarker(section) => TextLen(read) >= max_file_size
                      ELSE /\ section[2] = ContentPart(_extract_code_structure(read, suffix))
                           /\ ~HasTruncatedMarker(section)

\* C20 witness: a call has returned with the sections of two files: one
\* named after 'readme' with a code suffix, embedded as read although the
\* extractor would have reduced it, and followed by the marker because the
\* read returned max_file_size characters; and a code file that the
\* extractor reduced, without the marker.
C20_Witness ==
    /\ Completed
    /\ \E f, h \in Range(code_files) :
          /\ f.readable /\ h.readable
          /\ PathSuffix(PathName(f.path)) \notin DocumentSuffixes /\ NamesReadme(f)
          /\ _extract_code_structure(ReadFile(f, max_file_size), PathSuffix(PathName(f.path)))
                # ReadFile(f, max_file_size)
          /\ SectionOf(result, f)[2] = ContentPart(ReadFile(f, max_file_size))
          /\ HasTruncatedMarker(SectionOf(result, f))
          /\ PathSuffix(PathName(h.path)) \notin DocumentSuffixes /\ ~NamesReadme(h)
          /\ SectionOf(result, h)[2] # ContentPart(ReadFile(h, max_file_size))
          /\ ~HasTruncatedMarker(SectionOf(result, h))

\* the call has reduced a large content: by the keyword filter, whose kept
\* lines joined have 100 characters or more, or by the head/tail cut of a
\* content of more than 50 lines
ReducesContent ==
    /\ pc = "extracted"
    /\ TextLen(content) >= 3000
    /\ IF KeywordPrefixes(file_extension) # {}
       THEN LET matching == MatchingPositions(content, KeywordPrefixes(file_extension))
            IN /\ matching # {}
               /\ SumLengthsAt(content, matching) + Cardinality(matching) - 1 >= 100
       ELSE Len(content) > 50

\* C21 as stated: whenever _extract_code_structure reduces a content of 3000
\* characters or more, by the keyword filter or by the head/tail cut, the
\* returned string is strictly shorter than the content.
C21_ExtractionShrinks ==
    ReducesContent => TextLen(extracted) < TextLen(content)

\* the call was made on a large content with a keyword-filtered extension
\* whose matching lines, joined by newlines, have fewer than 100 characters
KeptTooLittle ==
    /\ pc = "extracted"
    /\ TextLen(content) >= 3000
    /\ KeywordPrefixes(file_extension) # {}
    /\ LET matching == MatchingPositions(content, KeywordPrefixes(file_extension))
       IN \/ matching = {}
          \/ SumLengthsAt(content, matching) + Cardinality(matching) - 1 < 100

\* C22: for a content of 3000 characters or more with a keyword-filtered
\* extension, when the kept lines joined by newlines have fewer than 100
\* characters (also when no line matched), the result is the first 3000
\* characters of the content followed by the '(truncated for brevity)' line,
\* and holds neither the kept lines alone nor the 'details omitted' marker.
C22_ExtractionFallback ==
    KeptTooLittle =>
        /\ IsRawTruncation(content, extracted)
        /\ \A i \in 1..Len(extracted) : extracted[i] # DetailsOmitted

\* C22 witness: the call has returned the raw truncation for a content of
\* 5000 characters whose two matching lines, joined, have 99 characters.
C22_Witness ==
    /\ KeptTooLittle
    /\ content = Joined99
    /\ file_extension = ".py"
    /\ Cardinality(MatchingPositions(content, PyPrefixes)) = 2
    /\ TextLen(extracted) = 3000 + 1 + LineLen(TruncatedForBrevity)

\* the call was made on a large content whose extension has no keyword filter
LargeOtherCase ==
    /\ pc = "extracted"
    /\ TextLen(content) >= 3000
    /\ KeywordPrefixes(file_extension) = {}

\* the first 25 lines of the content, the three marker lines and its last 25
\* lines
HeadMarkerTail ==
    SubSeq(content, 1, 25)
    \o <<Line("...", 0), Line("# Content truncated for brevity", 0), Line("...", 0)>>
    \o SubSeq(content, Len(content) - 24, Len(content))

\* the sequence starts with the lines of `first`
StartsWithLines(lines, first) ==
    Len(lines) >= Len(first) /\ SubSeq(lines, 1, Len(first)) = first

\* C23 as stated: for a content of 3000 characters or more whose extension
\* has no keyword filter, the result is the content when it has 50 lines or
\* fewer, and otherwise holds the first 25 lines, the marker lines and the
\* last 25 lines, in that order.
C23_HeadTailCut ==
    LargeOtherCase =>
        IF Len(content) <= 50 THEN extracted = content
        ELSE StartsWithLines(extracted, HeadMarkerTail)

\* C23 as amended: the content is returned unchanged when it has 50 lines or
\* fewer; otherwise, when the first 25 lines, the marker lines and the last 25
\* lines joined by newlines have 100 characters or more, the result is these
\* 53 lines followed by the 'full implementation details omitted' line, and
\* when they have fewer, it is the first 3000 characters of the content
\* followed by the '(truncated for brevity)' line.
C23_HeadTailCutOrFallback ==
    LargeOtherCase =>
        IF Len(content) <= 50 THEN extracted = content
        ELSE IF TextLen(HeadMarkerTail) >= 100
             THEN extracted = HeadMarkerTail \o <<DetailsOmitted>>
             ELSE IsRawTruncation(content, extracted)

\* C23 witness: the call has returned the 54 lines of the cut for a content of
\* 5000 characters and 401 lines with the extension .cpp.
C23_Witness ==
    /\ LargeOtherCase
    /\ file_extension = ".cpp"
    /\ content = MakeText(<<>>, 400, 5000)
    /\ Len(extracted) = 54
    /\ extracted[26] = Line("...", 0)
    /\ extracted[53] = content[401]

\* the entries below the root with no '.git' among their path segments and at
\* most max_depth segments: the files, and the directories
ShallowFilesOutsideGit ==
    {f.path : f \in {g \in tree : /\ \A i \in 1..Len(g.path) : g.path[i] # ".git"
                                   /\ Len(g.path) <= max_depth}}

ShallowDirectoriesOutsideGit ==
    {d \in DirectoriesOf(tree) : /\ \A i \in 1..Len(d) : d[i] # ".git"
                                 /\ Len(d) <= max_depth}

\* C24: when the walk of get_repository_structure meets no error, the files
\* list holds exactly the files, and the directories list exactly the
\* directories, that have no '.git' path segment and at most max_depth
\* segments below the root, each of them once: a deeper entry is not
\* recorded but what lies beside and after it is, and nothing in .git is
\* recorded at any depth.
C24_RecordsShallowOutsideGit ==
    (Surveyed /\ root_exists /\ ~SurveyFails) =>
        /\ Range(structure.files) = {PathStr(p) : p \in ShallowFilesOutsideGit}
        /\ Range(structure.directories) = {PathStr(d) : d \in ShallowDirectoriesOutsideGit}
        /\ Len(structure.files) = Cardinality(ShallowFilesOutsideGit)
        /\ Len(structure.directories) = Cardinality(ShallowDirectoriesOutsideGit)

\* C24 witness: a survey with max_depth = 2 has returned for a tree with a
\* file at depth 3, whose directory at depth 2 is recorded while the file is
\* not, and with a .git directory, of which nothing is recorded.
C24_Witness ==
    /\ Surveyed
    /\ max_depth = 2
    /\ \E f \in tree :
          /\ Len(f.path) = 3
          /\ ".git" \notin Range(f.path)
          /\ PathStr(f.path) \notin Range(structure.files)
          /\ PathStr(ParentOf(f.path)) \in Range(structure.directories)
    /\ \E g \in tree :
          /\ g.path[1] = ".git"
          /\ PathStr(<<".git">>) \notin Range(structure.directories)
    /\ structure.directories # <<>>

\* the files that extract_repository_content selects, in their order, for the
\* tree and the limits of the call when the root is r and the walk is `order`
SelectionUnder(r, order) ==
    SelectLoop(SortByPriority(r, WalkOn(r, tree, unsearchable, max_file_size, order).code_files),
               <<>>, 0, max_files).selected_files

\* C25 as stated: whether a file is excluded and which tier it has depend on
\* its path below the root, its name, its extension and its size only: the
\* files selected in a completed call, in their order, are also what the call
\* selects for the same tree and the same limits under any other root path.
C25_RootLocationIndependence ==
    Completed =>
        \A r \in RootPaths :
            \E order \in RglobOrders(tree, unsearchable) :
                /\ ~WalkOn(r, tree, unsearchable, max_file_size, order).failed
                /\ SelectionUnder(r, order) = code_files

\* the positions of the '## Code Files' header in a sequence of parts
CodeFilesHeaders(parts) == {i \in 1..Len(parts) : parts[i].kind = "## Code Files"}

\* the number of '### File:' section headers after the position i
SectionsAfter(parts, i) ==
    Cardinality({j \in (i + 1)..Len(parts) : IsFileSection(parts[j])})

\* C26: in the returned string the '## Code Files' header appears at most
\* once; the file count it states is the number of '### File:' sections that
\* follow it, one for each selected file, and the kilobyte figure is the sum
\* of the sizes of the selected files divided by 1024, rounded down; also
\* when the read of a selected file fails.
C26_HeaderConsistency ==
    Returned =>
        /\ Cardinality(CodeFilesHeaders(result)) <= 1
        /\ \A i \in CodeFilesHeaders(result) :
              /\ result[i].num = SectionsAfter(result, i)
              /\ result[i].num = Len(code_files)
              /\ \A j \in 1..(i - 1) : ~IsFileSection(result[j])
              /\ result[i].num2 = SumSizes(Range(code_files)) \div 1024

\* C26 witness: a call has returned whose header states 3 files and 439 KB,
\* one of the three files being impossible to read.
C26_Witness ==
    /\ Returned
    /\ ReadFailed
    /\ \E i \in CodeFilesHeaders(result) :
          /\ result[i].num = 3
          /\ result[i].num2 = 439
    /\ SumSizes(Range(code_files)) = 450200

\* the outcome of an llm.invoke is a failure after which the claim allows a
\* further attempt: a timeout, a 502, 503 or 504, a gateway error, an internal
\* server error, or a response that looks like an HTML error page
IsHtmlErrorPage(c) ==
    /\ c # ""
    /\ \/ StrStartsWith(StrStrip(c), "<")
       \/ \E i \in 1..(Len(c) - 15) : SubSeq(c, i, i + 15) = "Gateway Time-out"

MentionsAny(str, words) ==
    \E w \in words :
        \E i \in 1..(Len(str) - Len(w) + 1) : SubSeq(str, i, i + Len(w) - 1) = w

IsRetryableFailure(out) ==
    IF out.kind = "response" THEN IsHtmlErrorPage(out.content)
    ELSE \/ MentionsAny(out.type, {"Timeout", "InternalServerError"})
         \/ MentionsAny(out.message, {"502", "503", "504", "Gateway"})
         \/ MentionsAny(StrLowerAny(out.message), {"timeout"})

IsFailure(out) == out.kind = "exception" \/ IsHtmlErrorPage(out.content)

SendPromptEnded == pc \in {"returned", "raised"}

\* what holds at every moment of a call of send_prompt
SendPromptBounded ==
    /\ Len(invoked) <= max_retries
    /\ \A i \in 1..(Len(invoked) - 1) : IsRetryableFailure(invoked[i])
    /\ pc = "attempt" =>
          /\ \A i \in 1..Len(invoked) : IsRetryableFailure(invoked[i])
          /\ Len(invoked) < max_retries \/ max_retries = 0
    /\ pc = "returned" =>
          /\ reply.kind = "return"
          /\ Len(invoked) >= 1
          /\ invoked[Len(invoked)] = Response(reply.content)
          /\ ~StrStartsWith(reply.content, "<")
          /\ ~MentionsAny(reply.content, {"Gateway Time-out"})
    /\ pc = "raised" =>
          /\ reply.kind = "raise"
          /\ reply.exc # NoException
          /\ invoked = <<>> \/ IsFailure(invoked[Len(invoked)])

\* C27: send_prompt ends, by returning or raising, after at most
\* max_retries calls of llm.invoke; every call but the last was followed by
\* a retryable failure; an exception that is not retryable, and a failure of
\* the last attempt, end the call by raising; and a returned content neither
\* starts with '<' nor contains 'Gateway Time-out'.
C27_SendPromptTerminates ==
    /\ []SendPromptBounded
    /\ <>SendPromptEnded

\* C27 witness: send_prompt has returned the content of its third attempt,
\* after a response that was an HTML error page and a 502 error.
C27_Witness ==
    /\ pc = "returned"
    /\ max_retries = 3
    /\ Len(invoked) = 3
    /\ invoked[1] = Response("<html><body>502 Bad Gateway</body></html>")
    /\ invoked[2] = Raises("APIStatusError", "Error code: 502")
    /\ reply = Returns("# Documentation")

\* the loop has regenerated, or tried to regenerate, the documentation of the
\* repository it checked last
Regenerated == event.kind = "regenerate"

\* a commit hash was stored for that repository before the check, and the
\* remote answered with another one
CachedAndChanged ==
    /\ event.kind # "none"
    /\ event.before # NoHash
    /\ event.latest # NoHash
    /\ event.before # event.latest

\* C28 as stated: at every repository that a pass checks, the documentation
\* is regenerated only when a commit hash is cached for the repository and
\* differs from the latest hash of the remote; the cached hash changes only to
\* the latest hash, and only when none was cached before (the first sighting)
\* or generate_docu returned 'documented'; after a regeneration that failed
\* the cached hash is what it was, and every pass that reads a cached hash
\* different from the latest one attempts the regeneration.
C28_ChangeDetection ==
    /\ Regenerated => CachedAndChanged
    /\ (event.kind # "none" /\ event.after # event.before) =>
          /\ event.after = event.latest
          /\ event.before = NoHash \/ (Regenerated /\ event.status = "documented")
    /\ (Regenerated /\ event.status # "documented") => event.after = event.before
    /\ (event.read # NoHash /\ event.latest # NoHash /\ event.read # event.latest)
          => Regenerated

-----------------------------------------------------------------------------
(* Duplicate prevention of task_save_repo *)

\* C29: after any executions of task_save_repo, those that run at the same
\* time on different workers included, no two stored repositories have the
\* same normalized URL and no two have the same repo_name
C29_NoDuplicates ==
    \A i, j \in 1..Len(repo_table) :
       i < j =>
          /\ normalize_repo_url(repo_table[i].repo_url)
                # normalize_repo_url(repo_table[j].repo_url)
          /\ repo_table[i].repo_name # repo_table[j].repo_name

-----------------------------------------------------------------------------
(* Cleanup of the temporary clone *)

\* the call has returned on a path that had made the temporary directory
ReturnedAfterClone == docu.at = "returned" /\ docu.temp_dir # None

ReturnsDictionary == docu.result \in {"documented", "error"}

=============================================================================
